---------------------------- MODULE Spec2Model ----------------------------
(***************************************************************************)
(* The connector runtime of aloma-io/integration: the HTTP handshake       *)
(* (Connection, Registration), the persistent socket session (Transport),  *)
(* the WebsocketConnector that ties them together and the shutdown         *)
(* sequence of makeServer.                                                 *)
(*                                                                         *)
(* The runtime is single threaded: every handler (a timer callback, a      *)
(* socket event, the continuation of an awaited fetch) runs to its next    *)
(* suspension point without interleaving, so each is one action.  The      *)
(* remote server, the network, the clock, the operating system's signal    *)
(* and the business logic that calls send()/newPacket() are the            *)
(* environment.                                                            *)
(***************************************************************************)
EXTENDS Integers, Sequences, FiniteSets, Bags, TLC

(***************************************************************************)
(* Bounds of the model.                                                    *)
(***************************************************************************)
\* HTTP connect/register requests issued in one run.
MaxReq == 4
\* Sockets created in one run.
MaxSockets == 2
\* Packets passed to Transport.send() in one run.
MaxPackets == 2
\* Pending calls registered with newPacket(data, cb, key) in one run.
MaxCalls == 2
\* The clock stops here (milliseconds).
MaxTime == 420000
\* The largest retry budget a Fetcher is built with.
MaxRetry == 3
\* Outcomes (responses, failed token refreshes) one fetch call goes through.
MaxEvents == 3
\* Clients created with OAuth.getClient() in one run.
MaxClients == 2
\* Firings of the periodic refresh interval in one run.
MaxTicks == 1
\* A configured oauth tokenRefreshPeriod (milliseconds).
SomePeriod == 3600000
\* processPacket calls made on one dispatcher.
MaxJobs == 2
\* Frames received in one run, and the items of one frame.
MaxFrames == 2
MaxBatch == 2
\* Calls of the main callback (set-config pushes that reach start()).
MaxPushes == 3

(***************************************************************************)
(* Program constants (milliseconds).                                       *)
(***************************************************************************)
cleanInterval == 45 * 1000
\* Transport.clean: then = Date.now() - 5 * 60 * 1000
callbackTimeout == 5 * 60 * 1000
\* Connection.start: setTimeout(() => local.start(), 5000)
retryDelay == 5000
\* WebsocketConnector.start: setTimeout(() => local.start(), 1000)
reconnectDelay == 1000
\* makeServer term: setTimeout(..., 10000)
graceDelay == 10000
\* Fetcher constructor: retry = 5
defaultRetry == 5
\* Fetcher.onError: setTimeout(..., rateLimit ? 10000 : 500)
rateLimitDelay == 10000
errorDelay == 500
\* makeOAuth: dispatcher._oauth.tokenRefreshPeriod || 4 * 60 * 60 * 15000
defaultRefreshPeriod == 4 * 60 * 60 * 15000
\* The clock advances in steps of a third of the sweep interval, so that a
\* registration falls at every offset 0 s, 15 s, 30 s within a sweep period.
Granule == cleanInterval \div 3

VARIABLES
  phase,      \* makeServer: "up", "leaving", "grace", "closed", "exited"
  token,      \* Config._token: 0 is null, k the key the k-th request returned
  inflight,   \* HTTP requests awaited: [id, kind, auth, resp]
  nReq,       \* connect/register requests issued so far
  regFailed,  \* a registration was answered with a status other than 200
  timers,     \* pending setTimeout callbacks: a bag of [fn, delay]
  socks,      \* every WebSocket created: [state, pingTimeout, armed]
  running,    \* Transport.running
  _leaving,   \* Transport._leaving
  connected,  \* Transport.connected
  pinger,     \* Transport.pinger: 0 is null, i the interval of socket i
  pingers,    \* the ping intervals that are armed
  cleaner,    \* Transport.cleaner is armed
  packets,    \* Transport.packets, the outbound queue
  nSent,      \* packets passed to Transport.send() so far
  wire,       \* what was written to the sockets: <<socket, data>>
  callbacks,  \* Transport.callbacks: correlation id -> [created, throws]
  nCalls,     \* correlation ids registered so far
  fired,      \* callback invocations: <<id, argument, threw>>
  handed,     \* correlation ids of packets handed to _onMessage
  now,        \* Date.now()
  cleanerDue, \* when the sweep interval fires next
  retry,      \* Fetcher.retry, the budget the client was built with
  call,       \* the Fetcher.fetch call of this run, see NoCall
  theOAuth,   \* makeOAuth has built the OAuth session
  _oauth,     \* dispatcher._oauth: [noPeriodicTokenRefresh, tokenRefreshPeriod]
  access_token,   \* OAuth._data.access_token (0: null or undefined)
  refresh_token,  \* OAuth._data.refresh_token (0: undefined)
  nTok,       \* tokens the token endpoint has issued so far
  saves,      \* saveOAuthResult calls awaiting config.validateKeys
  nUpdates,   \* OAuth.update calls so far
  clients,    \* OAuth.clients.length
  refreshTimer,   \* period of dispatcher._refreshOAuthToken (0: not armed)
  tick,       \* OAuth.periodicRefresh in progress: [pc, i, failed, seen]
  refreshed,  \* periodicRefresh() calls on each client in the last tick
  nTicks,     \* firings of the refresh interval so far
  inbox,      \* frames received whose setTimeout(onMessages, 0) is pending
  nFrames,    \* frames received so far
  arrived,    \* the items of the frames received, in order
  delivered,  \* Transport.onMessage deliveries: <<consumer, item>>
  processing, \* packets whose processPacket the server's onMessage awaits
  invoked,    \* the handlers the Dispatcher has invoked: <<name, path, argument>>
  patched,    \* onConfig has run (startOAuth, finishOAuth are patched)
  dispatched, \* processPacket calls: [packet, hasDefault, patched, result]
  cfg,        \* dispatcher.onConfig in progress, see NoConfig
  jwe,        \* an encrypt/decrypt round trip, see NoToken
  _jwe,       \* Config._jwe, the codec of the connector: [valid, pair, imports]
  main        \* RuntimeContext's main callback: [healthInterval, armed, pc]

connVars == <<token, inflight, nReq, regFailed>>
sockVars == <<socks, running, _leaving, connected, pinger, pingers>>
sendVars == <<packets, nSent, wire>>
callVars == <<callbacks, nCalls, fired, handed>>
timeVars == <<now, cleanerDue>>
fetchVars == <<retry, call>>
sessionVars == <<access_token, refresh_token, nTok, saves, nUpdates>>
refreshVars == <<clients, refreshTimer, tick, refreshed, nTicks>>
clientVars == <<fetchVars, theOAuth, _oauth, sessionVars, refreshVars>>
inboundVars == <<inbox, nFrames, arrived, delivered, processing>>
dispatchVars == <<invoked, patched, dispatched>>
serverVars == <<inboundVars, dispatchVars, cfg, jwe, _jwe, main>>
vars == <<phase, token, inflight, nReq, regFailed, timers, socks, running,
          _leaving, connected, pinger, pingers, cleaner, packets, nSent,
          wire, callbacks, nCalls, fired, handed, now, cleanerDue,
          clientVars, serverVars>>

(***************************************************************************)
(* Helpers.                                                                *)
(***************************************************************************)
\* local.ws: the socket created last (0: none yet).
ws == Len(socks)

\* The process runs handlers: it has not reached process.exit, and is not
\* between close() returning and process.exit (microtasks only).
Alive == phase \in {"up", "leaving", "grace"}

Timer(fn, delay) == [fn |-> fn, delay |-> delay]
SetTimeout(bag, fn, delay) == bag (+) SetToBag({Timer(fn, delay)})
Pending(fn) == {t \in BagToSet(timers) : t.fn = fn}
Fired(t) == timers (-) SetToBag({t})

\* What an awaited fetch can come back with: a status, or a thrown network
\* error (also the AbortSignal timeout).
Statuses == {"200", "401", "500", "error"}

Request(id, kind, auth) == [id |-> id, kind |-> kind, auth |-> auth, resp |-> "pending"]

\* augmentRequest: Authorization: Connector <config.token()>
augmentRequest(tok) == [with |-> "token", token |-> tok]

\* augmentRegistration: Authorization: Connector <config.registrationToken()>
augmentRegistration == [with |-> "registrationToken", token |-> 0]

\* Connection.start up to its await: POST connect.
ConnectRequest(id, tok) == Request(id, "connect", augmentRequest(tok))

\* Registration.run up to its await: POST register.
RegisterRequest(id) == Request(id, "register", augmentRegistration)

\* Connection.close up to its await: POST disconnect.
DisconnectRequest(tok) == Request(0, "disconnect", augmentRequest(tok))

(***************************************************************************)
(* Init: makeServer has built the WebsocketConnector (and with it the      *)
(* Transport, whose constructor arms the sweep interval) and               *)
(* server.start() has issued its first connect request.                    *)
(***************************************************************************)
TransportInit ==
  /\ phase = "up"
  /\ token = 0
  /\ inflight = {ConnectRequest(1, 0)}
  /\ nReq = 1
  /\ regFailed = FALSE
  /\ timers = EmptyBag
  /\ socks = <<>>
  /\ running = TRUE
  /\ _leaving = FALSE
  /\ connected = FALSE
  /\ pinger = 0
  /\ pingers = {}
  /\ cleaner = TRUE
  /\ packets = <<>>
  /\ nSent = 0
  /\ wire = <<>>
  /\ callbacks = <<>>
  /\ nCalls = 0
  /\ fired = <<>>
  /\ handed = {}
  /\ now = 0
  /\ cleanerDue = cleanInterval

\* No fetch call yet.
NoCall ==
  [pc |-> "none", oauth |-> FALSE, retries |-> 0, force |-> FALSE,
   delay |-> 0, events |-> <<>>, waits |-> <<>>, forced |-> 0,
   bearers |-> <<>>, minted |-> 0, seen |-> 0]

\* OAuth.periodicRefresh is not running.
NoTick == [pc |-> "idle", i |-> 0, failed |-> FALSE, seen |-> 0]

\* The oauth options a connector is built with (Builder.oauth): the flag
\* noPeriodicTokenRefresh is true, false or absent, tokenRefreshPeriod a
\* number of milliseconds or absent (0).
OAuthOptions ==
  [noPeriodicTokenRefresh : {"true", "false", "unset"},
   tokenRefreshPeriod : {0, SomePeriod}]

\* Builder.oauth called without either option.
DefaultOptions == [noPeriodicTokenRefresh |-> "unset", tokenRefreshPeriod |-> 0]

\* Before set-config: no OAuth session, no client, no refresh interval.
ClientInit(budget, options) ==
  /\ retry = budget
  /\ call = NoCall
  /\ theOAuth = FALSE
  /\ _oauth = options
  /\ access_token = 0
  /\ refresh_token = 0
  /\ nTok = 0
  /\ saves = <<>>
  /\ nUpdates = 0
  /\ clients = 0
  /\ refreshTimer = 0
  /\ tick = NoTick
  /\ refreshed = [c \in 1..MaxClients |-> 0]
  /\ nTicks = 0

\* dispatcher.onConfig is not running.
NoConfig ==
  [pc |-> "idle", bundle |-> <<>>, i |-> 0, decrypted |-> <<>>,
   calls |-> {}, started |-> FALSE, pair |-> "undefined"]

\* RuntimeContext.start has registered its main callback: healthInterval is
\* undefined (0), no interval is armed, and main has not been called.  A call
\* of main is numbered, and the interval it sets carries its number.
NoMain ==
  [healthInterval |-> 0, armed |-> {}, pc |-> [k \in 1..MaxPushes |-> "none"]]

\* No token was encrypted yet.
NoToken == [pc |-> "idle"]

\* The connector server before its first inbound frame.
DispatcherInit ==
  /\ inbox = <<>>
  /\ nFrames = 0
  /\ arrived = <<>>
  /\ delivered = <<>>
  /\ processing = <<>>
  /\ invoked = <<>>
  /\ patched = FALSE
  /\ dispatched = <<>>
  /\ cfg = NoConfig
  /\ jwe = NoToken
  /\ main = NoMain

\* The codec of a connector whose environment holds a key pair that can be
\* imported or one that cannot: `pair` is this.pair ("undefined" until an
\* importPair call has assigned it), `imports` the importPair calls that have
\* not settled.
Codec(valid, pair, imports) == [valid |-> valid, pair |-> pair, imports |-> imports]

\* The connector was started with valid keys and the import makeConfig's
\* validateKeys began has finished long ago.
ServerInit ==
  /\ DispatcherInit
  /\ _jwe = Codec(TRUE, "imported", 0)

Init ==
  /\ TransportInit
  /\ ClientInit(defaultRetry, DefaultOptions)
  /\ ServerInit

(***************************************************************************)
(* Transport: the pieces of its methods.                                   *)
(***************************************************************************)
NewSocket == [state |-> "connecting", pingTimeout |-> FALSE, armed |-> 0]

\* ws.onPing: clearTimeout(this.pingTimeout), and the watchdog is set anew;
\* `armed` is the instant of that setTimeout.
onPing(sock, t) == [sock EXCEPT !.pingTimeout = TRUE, !.armed = t]

\* ws.terminate(): the socket is destroyed; its 'close' event follows.
Terminate(ss, i) ==
  IF i \in 1..Len(ss) /\ ss[i].state \in {"connecting", "open"}
    THEN [ss EXCEPT ![i].state = "closing"]
    ELSE ss

\* Transport.close, its try block: `local.ws.terminate()` names a variable
\* `local` that close() does not declare; the ReferenceError is swallowed by
\* the catch and no socket is terminated.
CloseSocks(ss) == ss

\* Transport.close: clearInterval(this.pinger).
ClearPinger(ps, p) == ps \ {p}

\* Transport.start, past its _leaving check: close(), running = true and a
\* new WebSocket.
StartedSocks(ss) == Append(CloseSocks(ss), NewSocket)

\* A 'close' handler that calls ondisconnect() without looking at
\* local.running.
OnDisconnectAlways(bag, isRunning) ==
  SetTimeout(bag, "WebsocketConnector.start", reconnectDelay)

\* A Transport.start whose ondisconnect also calls the callback that
\* Connection.start passes to onStart, () => local.onDisconnect().
OnDisconnectBoth(bag, isRunning) ==
  IF isRunning
    THEN SetTimeout(SetTimeout(bag, "WebsocketConnector.start", reconnectDelay),
                    "Connection.start", retryDelay)
    ELSE bag

\* The 'close' handler's `if (local.running) ondisconnect()`, with the
\* ondisconnect WebsocketConnector.start passes:
\* () => setTimeout(() => local.start(), 1000).
OnDisconnect(bag, isRunning) ==
  IF isRunning THEN SetTimeout(bag, "WebsocketConnector.start", reconnectDelay)
  ELSE bag

(***************************************************************************)
(* The HTTP handshake.                                                     *)
(***************************************************************************)
\* The server answers an awaited request, or the fetch fails.
Respond(r, status) ==
  /\ r \in inflight
  /\ r.resp = "pending"
  /\ inflight' = (inflight \ {r}) \cup {[r EXCEPT !.resp = status]}
  /\ UNCHANGED <<phase, token, nReq, regFailed, timers, sockVars, cleaner,
                 sendVars, callVars, timeVars,
                 clientVars, serverVars>>

\* Connection.start calls fetch: one more connect request in flight.
Connecting(reqs, id, tok) == reqs \cup {ConnectRequest(id, tok)}

\* Connection.start, status 401: new Registration(config).run() posts register.
Registering(reqs, id) == reqs \cup {RegisterRequest(id)}

\* A retry that waits the reconnect delay of 1 s instead of 5 s.
RetrySooner(bag) == SetTimeout(bag, "Connection.start", reconnectDelay)

\* Connection.start, neither 401 nor 200, and its catch block:
\* setTimeout(() => local.start(), 5000).
RetryLater(bag) == SetTimeout(bag, "Connection.start", retryDelay)

\* Connection.start resumes after `await fetch(connect)`.
ConnectContinue(r) ==
  /\ Alive
  /\ r \in inflight
  /\ r.kind = "connect"
  /\ r.resp # "pending"
  /\ IF r.resp = "401" THEN
       /\ nReq < MaxReq
       /\ nReq' = nReq + 1
       /\ inflight' = Registering(inflight \ {r}, nReq + 1)
       /\ UNCHANGED <<timers, sockVars, cleaner>>
     ELSE IF r.resp = "200" THEN
       \* config.data(...); local.onStart(...) is Transport.start
       /\ inflight' = inflight \ {r}
       /\ IF _leaving THEN UNCHANGED <<sockVars, cleaner>>
          ELSE /\ Len(socks) < MaxSockets
               /\ socks' = StartedSocks(socks)
               /\ pingers' = ClearPinger(pingers, pinger)
               /\ cleaner' = FALSE
               /\ connected' = FALSE
               /\ running' = TRUE
               /\ UNCHANGED <<_leaving, pinger>>
       /\ UNCHANGED <<nReq, timers>>
     ELSE
       /\ inflight' = inflight \ {r}
       /\ timers' = RetryLater(timers)
       /\ UNCHANGED <<nReq, sockVars, cleaner>>
  /\ UNCHANGED <<phase, token, regFailed, sendVars, callVars, timeVars,
                 clientVars, serverVars>>

\* Registration.run resumes after `await fetch(register)`; on 200 the key is
\* stored (config.setToken) and Connection.start calls itself; otherwise the
\* throw ('authentication failed', or the network error) lands in
\* Connection.start's catch block.
RegisterContinue(r) ==
  /\ Alive
  /\ r \in inflight
  /\ r.kind = "register"
  /\ r.resp # "pending"
  /\ IF r.resp = "200" THEN
       /\ nReq < MaxReq
       /\ token' = r.id
       /\ nReq' = nReq + 1
       /\ inflight' = Connecting(inflight \ {r}, nReq + 1, r.id)
       /\ UNCHANGED <<timers, regFailed>>
     ELSE
       /\ inflight' = inflight \ {r}
       /\ timers' = RetryLater(timers)
       /\ regFailed' = (regFailed \/ r.resp # "error")
       /\ UNCHANGED <<token, nReq>>
  /\ UNCHANGED <<phase, sockVars, cleaner, sendVars, callVars, timeVars,
                 clientVars, serverVars>>

\* A timer set by Connection.start fires: local.start().
RetryFire ==
  /\ Alive
  /\ nReq < MaxReq
  /\ \E t \in Pending("Connection.start") :
       /\ timers' = Fired(t)
       /\ nReq' = nReq + 1
       /\ inflight' = Connecting(inflight, nReq + 1, token)
  /\ UNCHANGED <<phase, token, regFailed, sockVars, cleaner, sendVars,
                 callVars, timeVars,
                 clientVars, serverVars>>

\* The timer set by ondisconnect fires: WebsocketConnector.start() builds a
\* new Connection and starts it.
ReconnectFire ==
  /\ Alive
  /\ nReq < MaxReq
  /\ \E t \in Pending("WebsocketConnector.start") :
       /\ timers' = Fired(t)
       /\ nReq' = nReq + 1
       /\ inflight' = Connecting(inflight, nReq + 1, token)
  /\ UNCHANGED <<phase, token, regFailed, sockVars, cleaner, sendVars,
                 callVars, timeVars,
                 clientVars, serverVars>>

(***************************************************************************)
(* Socket events.                                                          *)
(***************************************************************************)
\* ws 'open': connected = true, ws.onPing() arms the watchdog, the ping
\* interval is set, onConnect(local) installs dispatcher.onConfig.
SocketOpen(i) ==
  /\ Alive
  /\ i \in 1..Len(socks)
  /\ socks[i].state = "connecting"
  /\ socks' = [socks EXCEPT ![i] = onPing([socks[i] EXCEPT !.state = "open"], now)]
  /\ connected' = TRUE
  /\ pinger' = i
  /\ pingers' = pingers \cup {i}
  /\ UNCHANGED <<phase, connVars, timers, running, _leaving, cleaner,
                 sendVars, callVars, timeVars,
                 clientVars, serverVars>>

\* ws 'ping': ws.onPing() re-arms the watchdog.
SocketPing(i) ==
  /\ Alive
  /\ i \in 1..Len(socks)
  /\ socks[i].state = "open"
  /\ socks' = [socks EXCEPT ![i] = onPing(socks[i], now)]
  /\ UNCHANGED <<phase, connVars, timers, running, _leaving, connected,
                 pinger, pingers, cleaner, sendVars, callVars, timeVars,
                 clientVars, serverVars>>

\* A watchdog of 30 s.
WatchdogDueEarly(armed) == armed + 30000

\* setTimeout(..., 30000 + 15000): when the watchdog set at `armed` is due.
WatchdogDue(armed) == armed + 30000 + 15000

\* The watchdog of socket i fires: if (local.running) ws.terminate().
WatchdogFire(i) ==
  /\ Alive
  /\ i \in 1..Len(socks)
  /\ socks[i].pingTimeout
  /\ socks' = LET off == [socks EXCEPT ![i].pingTimeout = FALSE]
              IN  IF running THEN Terminate(off, i) ELSE off
  /\ UNCHANGED <<phase, connVars, timers, running, _leaving, connected,
                 pinger, pingers, cleaner, sendVars, callVars, timeVars,
                 clientVars, serverVars>>

\* ws 'close' (after a failed connect, a network drop, the server closing,
\* or terminate()): connected = false, clearInterval(local.pinger),
\* if (local.running) ondisconnect().
SocketClose(i) ==
  /\ Alive
  /\ i \in 1..Len(socks)
  /\ socks[i].state \in {"connecting", "open", "closing"}
  /\ socks' = [socks EXCEPT ![i].state = "closed"]
  /\ connected' = FALSE
  /\ pingers' = ClearPinger(pingers, pinger)
  /\ timers' = OnDisconnect(timers, running)
  /\ UNCHANGED <<phase, connVars, running, _leaving, pinger, cleaner,
                 sendVars, callVars, timeVars,
                 clientVars, serverVars>>

(***************************************************************************)
(* The send path.  A queue element is <<"Packet", d>> (a Packet wrapping   *)
(* the data object d), <<"data", d>> (a bare data object) or               *)
(* <<"undefined", 0>>.  On the wire 0 is JSON null.                        *)
(***************************************************************************)
Packet(d) == <<"Packet", d>>

\* `packet.data` of a queue element: a bare data object has no such field.
DataOf(e) == IF e[1] = "Packet" THEN e[2] ELSE 0

\* schedule0's loop: while ((packet = local.packets.shift()))
\* packets.push(packet.data).  It ends at the first falsy element, which
\* shift() has removed.
RECURSIVE Drain(_)
Drain(q) ==
  IF q = <<>> THEN [batch |-> <<>>, rest |-> <<>>]
  ELSE IF Head(q)[1] = "undefined" THEN [batch |-> <<>>, rest |-> Tail(q)]
  ELSE LET r == Drain(Tail(q))
       IN  [batch |-> <<DataOf(Head(q))>> \o r.batch, rest |-> r.rest]

\* What unshift() puts into the queue: the element of the batch itself.
Unshifted(d) == IF d = 0 THEN <<"undefined", 0>> ELSE <<"data", d>>

\* schedule0's catch block:
\* packets.forEach((packet) => local.packets.unshift(packet)).
RECURSIVE Requeue(_, _)
Requeue(batch, rest) ==
  IF batch = <<>> THEN rest
  ELSE Requeue(Tail(batch), <<Unshifted(Head(batch))>> \o rest)

\* A schedule0 that does not look at local.connected.
CanFlushUnguarded(q, isConnected) == q # <<>>

\* schedule0's guard: if (!local.packets.length || !local.connected) return.
CanFlush(q, isConnected) == q # <<>> /\ isConnected

\* local.ws.send(JSON.stringify({p: packets})): on an open socket the frame
\* is written, unless the call throws; the library throws on a socket that is
\* still connecting and, depending on its version, throws or discards the
\* frame on a socket that is closing or closed.  Before the first start()
\* local.ws is undefined and the call throws a TypeError.
SendOutcomes(state) ==
  CASE state = "open" -> {"sent", "threw"}
    [] state \in {"connecting", "none"} -> {"threw"}
    [] OTHER -> {"threw", "discarded"}

RECURSIVE Frames(_, _)
Frames(i, batch) ==
  IF batch = <<>> THEN <<>> ELSE <<<<i, Head(batch)>>>> \o Frames(i, Tail(batch))

\* The state of local.ws as ws.send sees it.
SocketState(ss) == IF Len(ss) = 0 THEN "none" ELSE ss[Len(ss)].state

\* Transport.send(packet): push and schedule().
Send ==
  /\ Alive
  /\ nSent < MaxPackets
  /\ nSent' = nSent + 1
  /\ packets' = Append(packets, Packet(nSent + 1))
  /\ timers' = SetTimeout(timers, "schedule0", 0)
  /\ UNCHANGED <<phase, connVars, sockVars, cleaner, wire, callVars, timeVars,
                 clientVars, serverVars>>

\* The timer of schedule() fires: schedule0().
Schedule0 ==
  /\ Alive
  /\ \E t \in Pending("schedule0") : timers' = Fired(t)
  /\ IF ~CanFlush(packets, connected) THEN UNCHANGED <<packets, wire>>
     ELSE LET d == Drain(packets) IN
       IF d.batch = <<>> THEN packets' = d.rest /\ UNCHANGED wire
       ELSE \E outcome \in SendOutcomes(SocketState(socks)) :
         /\ packets' = IF outcome = "threw" THEN Requeue(d.batch, d.rest) ELSE d.rest
         /\ wire' = IF outcome = "sent" THEN wire \o Frames(ws, d.batch) ELSE wire
  /\ UNCHANGED <<phase, connVars, sockVars, cleaner, nSent, callVars, timeVars,
                 clientVars, serverVars>>

(***************************************************************************)
(* Shutdown (makeServer's term).                                           *)
(***************************************************************************)
\* SIGTERM or SIGINT: server.leaving() runs Transport.leaving() and then
\* awaits Connection.close(), which posts disconnect.
Sigterm ==
  /\ phase = "up"
  /\ phase' = "leaving"
  /\ _leaving' = TRUE
  /\ running' = FALSE
  /\ inflight' = inflight \cup {DisconnectRequest(token)}
  /\ UNCHANGED <<token, nReq, regFailed, timers, socks, connected, pinger,
                 pingers, cleaner, sendVars, callVars, timeVars,
                 clientVars, serverVars>>

\* `await server.leaving()`: the fetch of Connection.close has settled.
Answered(r) == r.resp # "pending"

\* Connection.close resumes (its errors are swallowed); term sets the timer
\* of the grace period.
DisconnectContinue(r) ==
  /\ phase = "leaving"
  /\ r \in inflight
  /\ r.kind = "disconnect"
  /\ Answered(r)
  /\ inflight' = inflight \ {r}
  /\ phase' = "grace"
  /\ timers' = SetTimeout(timers, "server.close", graceDelay)
  /\ UNCHANGED <<token, nReq, regFailed, sockVars, cleaner, sendVars,
                 callVars, timeVars,
                 clientVars, serverVars>>

\* The grace timer fires: server.close() is Transport.close().
GraceFire ==
  /\ phase = "grace"
  /\ \E t \in Pending("server.close") : timers' = Fired(t)
  /\ phase' = "closed"
  /\ pingers' = ClearPinger(pingers, pinger)
  /\ cleaner' = FALSE
  /\ running' = FALSE
  /\ connected' = FALSE
  /\ socks' = CloseSocks(socks)
  /\ UNCHANGED <<connVars, _leaving, pinger, sendVars, callVars, timeVars,
                 clientVars, serverVars>>

\* process.exit(0).
Exit ==
  /\ phase = "closed"
  /\ phase' = "exited"
  /\ UNCHANGED <<connVars, timers, sockVars, cleaner, sendVars, callVars,
                 timeVars,
                 clientVars, serverVars>>

(***************************************************************************)
(* The correlation table and its sweep.                                    *)
(***************************************************************************)
\* `delete this.callbacks[key]`
Without(cbs, k) == [x \in DOMAIN cbs \ {k} |-> cbs[x]]

\* An onMessage that deletes the entry at the end of its try block instead of
\* in the finally: a callback that throws keeps its entry.
ResolvedInTry(cbs, k) == IF cbs[k].throws THEN cbs ELSE Without(cbs, k)

\* Transport.onMessage, a packet whose correlation id has an entry: the
\* callback is invoked in a try block whose finally deletes the entry.
Resolved(cbs, k) == Without(cbs, k)

\* newPacket(data, cb, cbKey): the callback is registered under a fresh
\* correlation id (a cuid) with created = Date.now().  Whether the callback
\* will throw when invoked is the caller's.
NewPacket(throws) ==
  /\ Alive
  /\ nCalls < MaxCalls
  /\ nCalls' = nCalls + 1
  /\ callbacks' = (nCalls + 1 :> [created |-> now, throws |-> throws]) @@ callbacks
  /\ UNCHANGED <<phase, connVars, timers, sockVars, cleaner, sendVars, fired,
                 handed, timeVars,
                 clientVars, serverVars>>

\* Transport.onMessage(data) for an inbound packet with correlation id k: a
\* reply, which may be late or a duplicate.
OnMessage(k) ==
  /\ Alive
  /\ k \in 1..nCalls
  /\ IF k \in DOMAIN callbacks THEN
       /\ fired' = Append(fired, <<k, "args", callbacks[k].throws>>)
       /\ callbacks' = Resolved(callbacks, k)
       /\ UNCHANGED handed
     ELSE
       /\ handed' = handed \cup {k}
       /\ UNCHANGED <<callbacks, fired>>
  /\ UNCHANGED <<phase, connVars, timers, sockVars, cleaner, sendVars, nCalls,
                 timeVars,
                 clientVars, serverVars>>

\* Transport.clean: cb.created < then, with then = Date.now() - 5 min.
Expired(cbs, t) == {k \in DOMAIN cbs : cbs[k].created < t - callbackTimeout}

RECURSIVE Timeouts(_, _)
Timeouts(cbs, ks) ==
  IF ks = {} THEN <<>>
  ELSE LET k == CHOOSE x \in ks : \A y \in ks : x <= y
       IN  <<<<k, "timeout", cbs[k].throws>>>> \o Timeouts(cbs, ks \ {k})

\* The sweep interval fires: clean().
Clean ==
  /\ Alive
  /\ cleaner
  /\ now = cleanerDue
  /\ cleanerDue' = now + cleanInterval
  /\ LET old == Expired(callbacks, now) IN
       /\ fired' = fired \o Timeouts(callbacks, old)
       /\ callbacks' = [x \in DOMAIN callbacks \ old |-> callbacks[x]]
  /\ UNCHANGED <<phase, connVars, timers, sockVars, cleaner, sendVars, nCalls,
                 handed, now,
                 clientVars, serverVars>>

\* The watchdog of socket i fires when it is due.
WatchdogTimeout(i) ==
  /\ i \in 1..Len(socks)
  /\ now = WatchdogDue(socks[i].armed)
  /\ WatchdogFire(i)

\* Time passes, up to the instant the sweep is due, and not beyond the
\* instant a watchdog is due.
Tick ==
  /\ Alive
  /\ now < MaxTime
  /\ LET next == IF now + Granule > MaxTime THEN MaxTime ELSE now + Granule
     IN  now' = IF cleaner /\ next > cleanerDue THEN cleanerDue ELSE next
  /\ now' > now
  /\ \A i \in 1..Len(socks) :
       socks[i].pingTimeout => now' <= WatchdogDue(socks[i].armed)
  /\ UNCHANGED <<phase, connVars, timers, sockVars, cleaner, sendVars,
                 callVars, cleanerDue,
                 clientVars, serverVars>>

(***************************************************************************)
(* Fetcher.fetch: one call and its retries.  A call is                     *)
(*   pc       "none", "exchange" (customize awaits the token endpoint),    *)
(*            "request" (the HTTP request is awaited), "wait" (onError's   *)
(*            timer is pending), "returned" or "threw";                    *)
(*   oauth    the client is an OAuthFetcher;                               *)
(*   retries  the parameter `retries` of the current invocation;           *)
(*   force    args.forceTokenRefresh of the current or next invocation;    *)
(*   delay    the delay of the pending timer;                              *)
(*   events   what the invocations ran into so far: a response status,     *)
(*            "error" (fetch rejected) or "refresh-failed" (getToken       *)
(*            threw);                                                      *)
(*   waits    the delays of the timers set so far;                         *)
(*   forced   token exchanges started by getToken(true);                   *)
(*   bearers  the token of the Authorization header of each request;       *)
(*   minted   the access token the last exchange of this call returned;    *)
(*   seen     the OAuth.update calls made before its last exchange began.  *)
(***************************************************************************)
transportVars ==
  <<phase, connVars, timers, sockVars, cleaner, sendVars, callVars, timeVars>>

\* What `await fetch(theURL, ...)` comes back with: a status, or a rejection
\* (network error, AbortSignal timeout), whose error has no status.
FetchStatuses == {"200", "400", "401", "422", "429", "500", "error"}

\* onError: rateLimit ? 10000 : 500
Delay(rateLimit) == IF rateLimit THEN rateLimitDelay ELSE errorDelay

\* catch: if (e.status === 429)
RateLimited(status) == status = "429"

\* A catch block that has no branch for bad requests.
BadRequestNever(status) == FALSE

\* catch: if (e.status === 400 || e.status === 422) throw e
BadRequest(status) == status \in {"400", "422"}

\* A 429 branch that spends one retry like any other error.
RateLimitBudgetSpent(retries) == retries - 1

\* catch, 429: local.onError(e, url, options0, retries, args, true) hands on
\* the budget as it is.
RateLimitBudget(retries) == retries

\* An onError that never asks for a forced refresh.
ForceNever(status) == FALSE

\* OAuthFetcher.onError: {forceTokenRefresh: e.status === 401}
ForceTokenRefresh(status) == status = "401"

\* The args of the retry: Fetcher.onError hands on args, OAuthFetcher.onError
\* replaces them.
NextArgs(c, status) == IF c.oauth THEN ForceTokenRefresh(status) ELSE c.force

Logged(c, ev) == [c EXCEPT !.events = Append(@, ev)]

\* local.onError(...): the timer is set; the promise fetch returns settles
\* with the retry.
Waiting(c, left, delay, status) ==
  [c EXCEPT !.pc = "wait", !.retries = left, !.delay = delay,
            !.waits = Append(@, delay), !.force = NextArgs(c, status)]

\* A catch block that never counts an attempt against the budget.
DecrementedNever(retries) == retries

\* catch: --retries
Decremented(retries) == retries - 1

\* Fetcher.fetch, the catch block.
Caught(c, status) ==
  IF RateLimited(status)
    THEN Waiting(c, RateLimitBudget(c.retries), Delay(TRUE), status)
  ELSE IF BadRequest(status) THEN [c EXCEPT !.pc = "threw"]
  ELSE LET left == Decremented(c.retries) IN
    IF left <= 0 THEN [c EXCEPT !.pc = "threw", !.retries = left]
    ELSE Waiting(c, left, Delay(FALSE), status)

\* customize has set Authorization: Bearer <tok> (0: no such header) and
\* fetch(theURL, ...) is awaited.
Requested(c, tok) == [c EXCEPT !.pc = "request", !.bearers = Append(@, tok)]

(***************************************************************************)
(* The OAuth session.                                                      *)
(***************************************************************************)
\* An invalidate that leaves the access token in place.
InvalidatedKept(at) == at

\* OAuth.invalidate: this._data.access_token = null
Invalidated(at) == 0

\* OAuthFetcher.getToken, the catch block: oauth.invalidate(e); throw e.
Invalidate ==
  /\ access_token' = Invalidated(access_token)
  /\ UNCHANGED <<refresh_token, saves, nUpdates>>

\* OAuth.update up to its await: the session is changed and
\* saveOAuthResult(this._data) is started; it awaits config.validateKeys.
Update(at, rt) ==
  /\ access_token' = at
  /\ refresh_token' = IF rt # 0 THEN rt ELSE refresh_token
  /\ nUpdates' = nUpdates + 1
  /\ saves' = Append(saves, at)

\* What obtainViaRefreshToken comes back with: a response with an access
\* token and a new refresh token, one with an access token only, one without
\* an access token, or a throw (status other than 200, network error).
ExchangeOutcomes == {"both", "access", "empty", "error"}

Granted(outcome, n) ==
  CASE outcome = "both" -> [access_token |-> n + 1, refresh_token |-> n + 2]
    [] outcome = "access" -> [access_token |-> n + 1, refresh_token |-> 0]
    [] OTHER -> [access_token |-> 0, refresh_token |-> 0]

Issued(outcome) ==
  CASE outcome = "both" -> 2 [] outcome = "access" -> 1 [] OTHER -> 0

\* A getToken that exchanges the refresh token on every call.
ReusesNever(force, cached) == FALSE

\* getToken: if (!force && oauth.accessToken()) return oauth.accessToken()
Reuses(force, cached) == ~force /\ cached # 0

\* Fetcher.fetch from its start to its first suspension: customize (for an
\* OAuthFetcher getToken(args.forceTokenRefresh)), then the request.
Begin(c) ==
  IF ~c.oauth THEN
    /\ call' = Requested(c, 0)
    /\ UNCHANGED <<access_token, refresh_token, saves, nUpdates>>
  ELSE IF Reuses(c.force, access_token) THEN
    /\ call' = Requested(c, access_token)
    /\ UNCHANGED <<access_token, refresh_token, saves, nUpdates>>
  ELSE IF refresh_token = 0 THEN
    \* "have no access_token and no refresh_token"
    /\ call' = Caught(Logged(c, "refresh-failed"), "refresh-failed")
    /\ Invalidate
  ELSE
    /\ call' = [c EXCEPT !.pc = "exchange", !.seen = nUpdates,
                         !.forced = IF c.force THEN @ + 1 ELSE @]
    /\ UNCHANGED <<access_token, refresh_token, saves, nUpdates>>

\* The business logic calls fetch(url, options) on a Fetcher or on a client
\* obtained from OAuth.getClient(): retries == null, so retries = local.retry.
FetchStart(isOAuth) ==
  /\ call.pc = "none"
  /\ isOAuth => theOAuth /\ clients > 0
  /\ Begin([NoCall EXCEPT !.oauth = isOAuth, !.retries = retry])
  /\ UNCHANGED <<transportVars, serverVars, retry, theOAuth, _oauth, nTok, refreshVars>>

\* The awaited request comes back and fetch goes on: it returns, or its
\* catch block runs.
FetchResponse(status) ==
  /\ call.pc = "request"
  /\ LET c == Logged(call, status) IN
       call' = IF status = "200" THEN [c EXCEPT !.pc = "returned"]
               ELSE Caught(c, status)
  /\ UNCHANGED <<transportVars, serverVars, retry, theOAuth, _oauth, sessionVars,
                 refreshVars>>

\* The token endpoint answers the exchange customize awaits.
ExchangeDone(outcome) ==
  /\ call.pc = "exchange"
  /\ LET ret == Granted(outcome, nTok) IN
       IF ret.access_token # 0 THEN
         /\ Update(ret.access_token, ret.refresh_token)
         /\ call' = Requested([call EXCEPT !.minted = ret.access_token],
                              ret.access_token)
       ELSE
         /\ Invalidate
         /\ call' = Caught(Logged(call, "refresh-failed"), "refresh-failed")
  /\ nTok' = nTok + Issued(outcome)
  /\ UNCHANGED <<transportVars, serverVars, retry, theOAuth, _oauth, refreshVars>>

\* The timer of onError fires: local.fetch(url, options, retries, args).
BackoffFire ==
  /\ call.pc = "wait"
  /\ Len(call.events) < MaxEvents
  /\ Begin(call)
  /\ UNCHANGED <<transportVars, serverVars, retry, theOAuth, _oauth, nTok, refreshVars>>

(***************************************************************************)
(* JSON values, as the secret codec sees them.  A value is [type, val]:     *)
(* an object with the sequence of its <<key, value>> pairs, an array with  *)
(* its elements, a string with its characters, a number or a boolean with  *)
(* its literal.  The session object of OAuth.data() is an object that      *)
(* carries its two fields by name.                                         *)
(***************************************************************************)
Obj(pairs) == [type |-> "object", val |-> pairs]
Arr(items) == [type |-> "array", val |-> items]
Str(chars) == [type |-> "string", val |-> chars]
Num(literal) == [type |-> "number", val |-> <<literal>>]
Bool(literal) == [type |-> "boolean", val |-> <<literal>>]

\* The keys an array or a string has when it is spread into an object.
IndexKey(i) == <<"0", "1", "2">>[i]
Indexed(items) == [i \in DOMAIN items |-> <<IndexKey(i), items[i]>>]

\* {...what}: the own enumerable properties of `what`.  An object is copied;
\* an array or a string gives an object keyed by index; a number or a boolean
\* has none and gives {}.
Spread(what) ==
  CASE what.type = "object" -> what
    [] what.type \in {"array", "string"} -> Obj(Indexed(what.val))
    [] OTHER -> Obj(<<>>)

(***************************************************************************)
(* makeOAuth: persisting the session, and the periodic refresh.            *)
(***************************************************************************)
\* config.id()
connectorId == "connector-id"

\* JWE.encrypt(what, expiration, audience): an encrypted JWT over
\* {_data: {...what}} for the audience, issued now; an expiration time is set
\* unless expiration is empty or "none".  Spread is defined with the codec.
Encrypt(what, expiration, audience) ==
  [_data |-> Spread(what), aud |-> audience, iat |-> now,
   exp |-> IF expiration \in {"", "none"} THEN "unset" ELSE expiration]

\* OAuth.data(): the session object saveOAuthResult was handed.
SessionData ==
  [type |-> "object", access_token |-> access_token,
   refresh_token |-> refresh_token]

\* The packet saveOAuthResult builds.
ConfigUpdate(value) == [method |-> "connector.config-update", value |-> value]

\* saveOAuthResult resumes after `await config.validateKeys(...)`: the
\* session object, as it is by now, is encrypted and the packet is passed to
\* transport.send (push and schedule()).  The pending calls resume in the
\* order they were made.
SaveContinue ==
  /\ saves # <<>>
  /\ saves' = Tail(saves)
  /\ packets' = Append(packets,
                  Packet(ConfigUpdate(Encrypt(SessionData, "none", connectorId))))
  /\ nSent' = nSent + 1
  /\ timers' = SetTimeout(timers, "schedule0", 0)
  /\ UNCHANGED <<phase, connVars, sockVars, cleaner, wire, callVars, timeVars,
                 fetchVars, theOAuth, _oauth, access_token, refresh_token,
                 nTok, nUpdates, refreshVars, serverVars>>

\* makeOAuth: if (!(dispatcher._oauth.noPeriodicTokenRefresh === false))
ArmsTimer(o) == ~(o.noPeriodicTokenRefresh = "false")

\* makeOAuth: dispatcher._oauth.tokenRefreshPeriod || 4 * 60 * 60 * 15000
Period(o) ==
  IF o.tokenRefreshPeriod # 0 THEN o.tokenRefreshPeriod
  ELSE defaultRefreshPeriod

\* set-config is processed: makeOAuth builds the OAuth session from
\* decrypted.oauthResult, clears the refresh interval and sets it anew.
NewSession(at, rt) ==
  /\ theOAuth' = TRUE
  /\ access_token' = at
  /\ refresh_token' = rt
  /\ nTok' = 2
  /\ refreshTimer' = IF ArmsTimer(_oauth) THEN Period(_oauth) ELSE 0

MakeOAuth(at, rt) ==
  /\ ~theOAuth
  /\ NewSession(at, rt)
  /\ UNCHANGED <<transportVars, serverVars, fetchVars, _oauth, saves, nUpdates, clients,
                 tick, refreshed, nTicks>>

\* OAuth.getClient(): a new OAuthFetcher is pushed to this.clients.
GetClient ==
  /\ theOAuth
  /\ clients < MaxClients
  /\ clients' = clients + 1
  /\ UNCHANGED <<transportVars, serverVars, fetchVars, theOAuth, _oauth, sessionVars,
                 refreshTimer, tick, refreshed, nTicks>>

\* OAuth.periodicRefresh, the loop body: const client = clients[0].
Picked(i) == 1

Called(r, c) == [r EXCEPT ![c] = @ + 1]

\* The loop from iteration i on, when OAuthFetcher.periodicRefresh returns at
\* once (no refresh token).
RECURSIVE CalledAll(_, _, _)
CalledAll(r, i, k) ==
  IF i > k THEN r ELSE CalledAll(Called(r, Picked(i)), i + 1, k)

\* OAuth.periodicRefresh from iteration i to its next suspension:
\* client.periodicRefresh() returns at once without a refresh token,
\* otherwise it awaits getToken(true), that is, the token endpoint.
Loop(t, r, i) ==
  IF i > clients THEN
    tick' = [t EXCEPT !.pc = "idle", !.i = clients] /\ refreshed' = r
  ELSE IF refresh_token' = 0 THEN
    /\ tick' = [t EXCEPT !.pc = "idle", !.i = clients]
    /\ refreshed' = CalledAll(r, i, clients)
  ELSE
    /\ tick' = [t EXCEPT !.pc = "exchange", !.i = i, !.seen = nUpdates']
    /\ refreshed' = Called(r, Picked(i))

\* The refresh interval fires: theOAuth.periodicRefresh().
PeriodicFire ==
  /\ refreshTimer # 0
  /\ tick.pc = "idle"
  /\ nTicks < MaxTicks
  /\ nTicks' = nTicks + 1
  /\ UNCHANGED sessionVars
  /\ Loop(NoTick, [c \in 1..MaxClients |-> 0], 1)
  /\ UNCHANGED <<transportVars, serverVars, fetchVars, theOAuth, _oauth, clients,
                 refreshTimer>>

\* The token endpoint answers the exchange the periodic refresh awaits: on
\* success the loop goes on; a throw leaves the loop and is logged by the
\* interval's callback.
PeriodicExchangeDone(outcome) ==
  /\ tick.pc = "exchange"
  /\ LET ret == Granted(outcome, nTok) IN
       IF ret.access_token # 0 THEN
         /\ Update(ret.access_token, ret.refresh_token)
         /\ Loop(tick, refreshed, tick.i + 1)
       ELSE
         /\ Invalidate
         /\ tick' = [tick EXCEPT !.pc = "idle", !.failed = TRUE]
         /\ UNCHANGED refreshed
  /\ nTok' = nTok + Issued(outcome)
  /\ UNCHANGED <<transportVars, serverVars, fetchVars, theOAuth, _oauth, clients,
                 refreshTimer, nTicks>>

(***************************************************************************)
(* The Dispatcher (build): resolveMethod, execute and processPacket.  The  *)
(* resolver table of the connector under test is                           *)
(*   { ping: fn, companies: { getPage: fn } }                              *)
(* with or without a __default resolver.  A value reached in the table is  *)
(* [kind, at]: "own" with the path of keys that leads to it, "inherited"   *)
(* with the name of a member found on a prototype, or "undefined".         *)
(***************************************************************************)
\* The functions and the objects of the table, by their path.
Functions == {<<"ping">>, <<"companies", "getPage">>}
Objects == {<<>>, <<"companies">>}

Own(path) == [kind |-> "own", at |-> path]
Inherited(name) == [kind |-> "inherited", at |-> <<name>>]
Undefined == [kind |-> "undefined", at |-> <<>>]

\* The members every object and function has through its prototype chain
\* (Object.prototype), and the one only functions have.
ProtoMembers == {"constructor", "__proto__", "toString", "hasOwnProperty"}

\* current[segment]
Member(current, segment) ==
  IF current.kind = "own" /\ Append(current.at, segment) \in Functions \cup Objects
    THEN Own(Append(current.at, segment))
  ELSE IF segment \in ProtoMembers THEN Inherited(segment)
  ELSE IF segment = "prototype" /\ current.kind = "own" /\ current.at \in Functions
    THEN Inherited(segment)
  ELSE Undefined

\* typeof value === "function"
Callable(value) ==
  \/ value.kind = "own" /\ value.at \in Functions
  \/ value.kind = "inherited"
       /\ value.at \in {<<"constructor">>, <<"toString">>, <<"hasOwnProperty">>}

\* resolveMethod: while (query.length && current) current = current[query.shift()].
\* `rest` is what the shifts leave of the array, which execute goes on to use.
RECURSIVE resolveMethod(_, _)
resolveMethod(current, query) ==
  IF query = <<>> \/ current.kind = "undefined"
    THEN [method |-> current, rest |-> query]
    ELSE resolveMethod(Member(current, Head(query)), Tail(query))

\* The segments execute's filter drops besides the blank ones.
Reserved == {"constructor", "__proto__", "toString", "toSource", "prototype"}

\* !!what?.trim() && ![...].includes(what)
Kept(segment) == segment # "" /\ segment \notin Reserved

RECURSIVE Filter(_)
Filter(query) ==
  IF query = <<>> THEN <<>>
  ELSE (IF Kept(Head(query)) THEN <<Head(query)>> ELSE <<>>) \o Filter(Tail(query))

\* .slice(0, 20)
maxDepth == 20
Slice(query) == IF Len(query) > maxDepth THEN SubSeq(query, 1, maxDepth) ELSE query

\* What a call of a handler of the connector does: it returns a value (an
\* object, unless said otherwise), undefined or null, or it throws.
Behaviours == {"value", "undefined", "null", "throws"}

\* The result of processPacket: what it resolves to ("value", "undefined" or
\* "null"), the message of the error it rejects with ("" when it resolves)
\* and the query the message names, the handlers it invoked and whether
\* onConfig ran.
Returned(ret, calls) ==
  [ret |-> ret, threw |-> "", named |-> <<>>, invoked |-> calls, patches |-> FALSE]
Threw(message, calls) ==
  [ret |-> "undefined", threw |-> message, named |-> <<>>, invoked |-> calls,
   patches |-> FALSE]

\* The argument a handler is called with: the variables of the query
\* ("object", or "none" when the packet has none) and the __method added to
\* them, if one is.
Received(variables, has, method) ==
  [variables |-> variables, has |-> has, __method |-> method]

\* An invocation of a handler: its name, the path of the resolver table it
\* was found at and the argument it got.
CallWith(name, path, received, behaviour) ==
  IF behaviour = "throws"
    THEN Threw("Error: handler failed", <<<<name, path, received>>>>)
    ELSE Returned(behaviour, <<<<name, path, received>>>>)

\* A handler is called with the arguments of the packet and does what
\* `behaviour` says.
Call(name, path, behaviour) ==
  CallWith(name, path, Received("object", FALSE, <<>>), behaviour)

\* typeof ret === "object" && !Array.isArray(ret) ? ret : {[query]: ret}
\* null is an object and stays null; undefined is wrapped.
Wrapped(ret) == IF ret = "null" THEN "null" ELSE "value"

\* method(variables) is called without a receiver: a function of the table
\* does what `behaviour` says, a method of Object.prototype throws a
\* TypeError when it converts its receiver.
Invoke(method, variables, behaviour) ==
  IF method.kind = "inherited"
    THEN Threw("TypeError: Cannot convert undefined or null to object",
               <<<<method.kind, method.at, Received(variables, FALSE, <<>>)>>>>)
    ELSE CallWith(method.kind, method.at, Received(variables, FALSE, <<>>),
                  behaviour)

\* variables ? {...variables, __method: query} : variables, `query` being
\* the array resolveMethod has shifted.
DefaultArgs(variables, query) ==
  IF variables = "none" THEN Received(variables, FALSE, <<>>)
  ELSE Received(variables, TRUE, query)

\* throw new Error(`${query} not found`), `query` being the same array.
NotFound(query) == [Threw("Error: not found", <<>>) EXCEPT !.named = query]

\* execute({query, variables}), the query being an array.
execute(query, variables, hasDefault, behaviour) ==
  LET r == resolveMethod(Own(<<>>), Slice(Filter(query)))
  IN  IF r.method.kind = "undefined" /\ ~hasDefault
        THEN NotFound(r.rest)
      ELSE IF r.method.kind = "undefined"
        THEN CallWith("__default", <<"__default">>, DefaultArgs(variables, r.rest),
                      behaviour)
      ELSE IF Callable(r.method)
        THEN Invoke(r.method, variables, behaviour)
      ELSE Threw("TypeError: method is not a function", <<>>)

\* The commands of processPacket's switch.
Command == {"connector.introspect", "connector.start-oauth",
            "connector.finish-oauth", "connector.query", "connector.set-config"}

\* A switch that lost its last case.
HandlesButSetConfig(method) == method \in Command \ {"connector.set-config"}

\* packet.method() matches a case of the switch.
Handles(method) == method \in Command

\* Dispatcher.startOAuth and finishOAuth throw until onConfig has patched
\* them.
OAuthCall(name, isPatched, behaviour) ==
  IF isPatched THEN Call(name, <<>>, behaviour)
  ELSE Threw("Error: oauth not configured",
             <<<<name, <<>>, Received("object", FALSE, <<>>)>>>>)

\* processPacket(packet): a packet is [c, m, q], its correlation id (0:
\* none), its method and the query of its arguments.
processPacket(packet, hasDefault, isPatched, behaviour) ==
  IF ~Handles(packet.m)
    THEN Threw("Error: cannot handle packet", <<>>)
  ELSE CASE packet.m = "connector.introspect" ->
              Call("introspect", <<>>, "value")
         [] packet.m = "connector.start-oauth" ->
              OAuthCall("startOAuth", isPatched, behaviour)
         [] packet.m = "connector.finish-oauth" ->
              OAuthCall("finishOAuth", isPatched, behaviour)
         [] packet.m = "connector.query" ->
              LET r == execute(packet.q, packet.v, hasDefault, behaviour)
              IN  IF r.threw = "" THEN [r EXCEPT !.ret = Wrapped(r.ret)] ELSE r
         [] OTHER ->
              IF behaviour = "throws"
                THEN Call("onConfig", <<>>, behaviour)
                ELSE [Call("onConfig", <<>>, "undefined") EXCEPT !.patches = TRUE]

\* The inputs: the segments of a query, the queries, the methods of a packet
\* ("none": a packet without method) and the packets.
Segments == {"ping", "companies", "getPage", "__proto__", "hasOwnProperty", ""}
MaxPath == 2

Paths == UNION {[1..n -> Segments] : n \in 0..MaxPath}

Methods == Command \cup {"connector.ping", "none"}

\* A packet: its correlation id (0: none), its method, and the query and the
\* variables of its arguments.
PacketWith(c, m, q, v) == [c |-> c, m |-> m, q |-> q, v |-> v]

PacketOf(c, m, q) == PacketWith(c, m, q, "object")

Variables == {"object", "none"}

DispatchPackets ==
  {PacketWith(1, "connector.query", q, v) : q \in Paths, v \in Variables}
    \cup {PacketOf(1, m, <<>>) : m \in Methods \ {"connector.query"}}

\* processPacket is called with a packet, on a connector with or without a
\* __default resolver, whose handlers behave in one of the three ways.
Dispatch(packet, hasDefault, behaviour) ==
  /\ Len(dispatched) < MaxJobs
  /\ LET r == processPacket(packet, hasDefault, patched, behaviour)
     IN  /\ dispatched' = Append(dispatched,
                            [packet |-> packet, hasDefault |-> hasDefault,
                             patched |-> patched, result |-> r])
         /\ invoked' = invoked \o r.invoked
         /\ patched' = (patched \/ r.patches)
  /\ UNCHANGED <<transportVars, clientVars, inboundVars, cfg, jwe, _jwe, main>>

(***************************************************************************)
(* The inbound path: ws 'message', Transport.onMessages and onMessage, and *)
(* the server's onMessage with reply and handlePacketError.  A frame is    *)
(* [json, p]: whether JSON.parse accepts it, and the items of its batch.   *)
(* An item is a packet [c, m, q] or Null.  In the arguments of a reply a   *)
(* key that is absent is "none".                                           *)
(***************************************************************************)
\* An item of a batch that is null (or otherwise falsy).
Null == PacketOf(0, "null", <<>>)

Frame(json, p) == [json |-> json, p |-> p]

\* ws 'message': setTimeout(() => local.onMessages(JSON.parse(message)), 0).
\* The timers of delay 0 fire in the order they were set.
SocketMessage(i, frame) ==
  /\ Alive
  /\ i \in 1..Len(socks)
  /\ socks[i].state = "open"
  /\ nFrames < MaxFrames
  /\ nFrames' = nFrames + 1
  /\ inbox' = Append(inbox, frame)
  /\ arrived' = arrived \o (IF frame.json THEN frame.p ELSE <<>>)
  /\ UNCHANGED <<transportVars, clientVars, delivered, processing,
                 dispatchVars, cfg, jwe, _jwe, main>>

\* An onMessage without the `return` that ends the callback branch.
ConsumersBoth(matched) ==
  IF matched THEN {"callback", "dispatcher"} ELSE {"dispatcher"}

\* Transport.onMessage: who gets a packet, given whether its correlation id
\* has an entry in the table.
Consumers(matched) == IF matched THEN {"callback"} ELSE {"dispatcher"}

\* Transport.onMessage(data) on the state st = [callbacks, fired, handed,
\* delivered, processing].  The handler _onMessage is the server's
\* onMessage, which awaits processPacket(packet).
Deliver(st, item) ==
  IF item = Null THEN st
  ELSE
    LET to == Consumers(item.c # 0 /\ item.c \in DOMAIN st.callbacks)
        s1 == IF "callback" \in to
                THEN [st EXCEPT
                        !.fired = Append(@, <<item.c, "args", st.callbacks[item.c].throws>>),
                        !.callbacks = Resolved(@, item.c),
                        !.delivered = Append(@, <<"callback", item>>)]
                ELSE st
    IN  IF "dispatcher" \in to
          THEN [s1 EXCEPT
                  !.handed = IF item.c # 0 THEN @ \cup {item.c} ELSE @,
                  !.delivered = Append(@, <<"dispatcher", item>>),
                  !.processing = Append(@, item)]
          ELSE s1

\* Transport.onMessages: msgs.p?.forEach((item) => local.onMessage(item)).
RECURSIVE DeliverAll(_, _)
DeliverAll(st, p) ==
  IF p = <<>> THEN st ELSE DeliverAll(Deliver(st, Head(p)), Tail(p))

\* The timer of a frame fires.  A frame that is not JSON makes JSON.parse
\* throw; the uncaughtException handler logs the error.
OnMessages ==
  /\ Alive
  /\ inbox # <<>>
  /\ inbox' = Tail(inbox)
  /\ LET frame == Head(inbox)
         st == DeliverAll([callbacks |-> callbacks, fired |-> fired,
                           handed |-> handed, delivered |-> delivered,
                           processing |-> processing],
                          IF frame.json THEN frame.p ELSE <<>>)
     IN  /\ callbacks' = st.callbacks
         /\ fired' = st.fired
         /\ handed' = st.handed
         /\ delivered' = st.delivered
         /\ processing' = st.processing
  /\ UNCHANGED <<phase, connVars, timers, sockVars, cleaner, sendVars, nCalls,
                 timeVars, clientVars, nFrames, arrived,
                 dispatchVars, cfg, jwe, _jwe, main>>

\* In the arguments of a reply packet: {...arg}, or {error: "" + e}.
Args(result, error) == [result |-> result, error |-> error]

\* reply(arg, packet, transport), called if (ret): without correlation id
\* the result is logged, else a packet with it is sent.
Reply(packet, ret) ==
  IF ret # "value" \/ packet.c = 0 THEN <<>>
  ELSE <<Packet([c |-> packet.c, a |-> Args(ret, "none")])>>

\* A handlePacketError that only logs.
ErrorReplyDropped(packet, message) == <<>>

\* handlePacketError(packet, e, transport): without correlation id the error
\* is logged, else a packet with {error: "" + e} is sent.
ErrorReply(packet, message) ==
  IF packet.c = 0 THEN <<>>
  ELSE <<Packet([c |-> packet.c, a |-> Args("none", message)])>>

\* `seq` without its j-th element.
Remove(seq, j) == SubSeq(seq, 1, j - 1) \o SubSeq(seq, j + 1, Len(seq))

\* The server's onMessage resumes: processPacket(packet) has resolved or
\* rejected, on a connector without __default resolver.
\* Transport.send pushes the packet and calls schedule().
OnMessageContinue(j, behaviour) ==
  /\ Alive
  /\ j \in DOMAIN processing
  /\ LET packet == processing[j]
         r == processPacket(packet, FALSE, patched, behaviour)
         out == IF r.threw = "" THEN Reply(packet, r.ret)
                ELSE ErrorReply(packet, r.threw)
     IN  /\ processing' = Remove(processing, j)
         /\ dispatched' = Append(dispatched,
                            [packet |-> packet, hasDefault |-> FALSE,
                             patched |-> patched, result |-> r])
         /\ invoked' = invoked \o r.invoked
         /\ patched' = (patched \/ r.patches)
         /\ packets' = packets \o out
         /\ timers' = IF out = <<>> THEN timers
                      ELSE SetTimeout(timers, "schedule0", 0)
  /\ UNCHANGED <<phase, connVars, sockVars, cleaner, nSent, wire, callVars,
                 timeVars, clientVars, inbox, nFrames, arrived, delivered,
                 cfg, jwe, _jwe, main>>

\* The items and the frames the server sends in SpecInbound.
InboundItems ==
  {Null} \cup {PacketOf(c, m, <<"ping">>) :
                 c \in 0..1, m \in {"connector.query", "connector.ping"}}

InboundFrames ==
  {Frame(FALSE, <<>>)}
    \cup {Frame(TRUE, p) : p \in UNION {[1..n -> InboundItems] : n \in 0..MaxBatch}}

(***************************************************************************)
(* The secret codec (JWE): decrypt, and the round trip.                    *)
(***************************************************************************)
\* setExpirationTime("7d"), in milliseconds.
Lifetime(exp) == IF exp = "unset" THEN 0 ELSE 7 * 24 * 60 * 60 * 1000

\* jose.jwtDecrypt(what, privateKey, {issuer, audience}): the token is
\* rejected when its audience is not the expected one or when it has expired.
Accepts(jwt, audience, t) ==
  /\ jwt.aud = audience
  /\ jwt.exp = "unset" \/ t < jwt.iat + Lifetime(jwt.exp)

Failure == [ok |-> FALSE]
Success(data) == [ok |-> TRUE, data |-> data]

\* JWE.decrypt(what, audience): payload._data, or the error of jwtDecrypt.
Decrypt(jwt, audience, t) ==
  IF Accepts(jwt, audience, t) THEN Success(jwt._data) ELSE Failure

\* JWE.encrypt is called.
EncryptPayload(payload, expiration, audience) ==
  /\ jwe.pc = "idle"
  /\ jwe' = [pc |-> "encrypted", payload |-> payload,
             jwt |-> Encrypt(payload, expiration, audience)]
  /\ UNCHANGED <<transportVars, clientVars, inboundVars,
                 dispatchVars, cfg, _jwe, main>>

\* JWE.decrypt is called with the token and an audience.
DecryptToken(audience) ==
  /\ jwe.pc = "encrypted"
  /\ jwe' = [pc |-> "decrypted", payload |-> jwe.payload, jwt |-> jwe.jwt,
             reader |-> audience, out |-> Decrypt(jwe.jwt, audience, now)]
  /\ UNCHANGED <<transportVars, clientVars, inboundVars,
                 dispatchVars, cfg, _jwe, main>>

\* The inputs of the round trip.
Payloads ==
  {Obj(<<>>), Obj(<<<<"key", "v">>>>), Obj(<<<<"a", "v">>, <<"b", "w">>>>),
   Arr(<<>>), Arr(<<"v">>), Arr(<<"v", "w">>),
   Str(<<>>), Str(<<"a">>), Str(<<"a", "b">>),
   Num(0), Num(7), Bool(TRUE), Bool(FALSE)}

Expirations == {"", "none", "7d"}

Audiences == {connectorId, "another-id"}

(***************************************************************************)
(* dispatcher.onConfig: decryptConfig and what follows it.  The bundle of  *)
(* a set-config packet maps each key to an entry:                          *)
(*   "absent"   the key is not in the bundle;                              *)
(*   "empty"    the value is "" (or another falsy value);                  *)
(*   "text"     a string that is not an encrypted token;                   *)
(*   "jwe"      a token encrypted for this connector;                      *)
(*   "foreign"  a token encrypted for another audience.                    *)
(* cfg is [pc, bundle, i, decrypted, calls, started, pair]: the keys up to *)
(* i were handled, decrypted maps the keys to what was assigned ("unset":  *)
(* nothing), calls are the keys whose value was passed to jwe.decrypt,     *)
(* pair is jwe.pair as the running continuation finds it.                  *)
(***************************************************************************)
ConfigKeys == <<"region", "apiKey", "endpointUrl", "oauthResult">>

\* configSchema().fields[key]?.plain
PlainFields == {"region"}

\* fields[key]?.plain || ["endpointUrl"].includes(key)
Bypasses(key) == key \in PlainFields \/ key \in {"endpointUrl"}

EntryKinds == {"absent", "empty", "text", "jwe", "foreign"}

Bundles == [1..Len(ConfigKeys) -> EntryKinds]

\* What the server encrypted under a key: the session for oauthResult, a
\* string for every other key.
Secret(key) ==
  IF key = "oauthResult"
    THEN [type |-> "object", access_token |-> 1, refresh_token |-> 2]
    ELSE Str(<<"s">>)

\* The token of an entry of kind "jwe" or "foreign".
TokenOf(key, kind) ==
  [_data |-> Secret(key),
   aud |-> IF kind = "jwe" THEN connectorId ELSE "another-id",
   iat |-> 0, exp |-> "unset"]

\* jwe.decrypt(value, config.id()) for an entry: a string that is not a
\* token is rejected.
DecryptEntry(key, kind, t) ==
  IF kind = "text" THEN Failure ELSE Decrypt(TokenOf(key, kind), connectorId, t)

\* A decryptConfig without the try around jwe.decrypt: the rejection ends
\* decryptConfig and onConfig.
Rethrown(c) == [c EXCEPT !.pc = "failed"]

\* decryptConfig's catch: the failure is logged and the loop goes on.
DecryptCaught(c) == c

\* decryptConfig's loop from key i + 1 on, up to its next await: a key that
\* is absent or whose value is falsy is skipped, a field that bypasses the
\* codec is copied, and at a field that does not jwe.decrypt is called.
\* Without a pair, `this.pair!.privateKey` throws at once and the catch
\* runs; with a pair the loop awaits jose.jwtDecrypt.  After the last key
\* decryptConfig returns.
RECURSIVE ConfigLoop(_)
ConfigLoop(c) ==
  IF c.i = Len(ConfigKeys) THEN [c EXCEPT !.pc = "decrypted"]
  ELSE LET k == c.i + 1
           key == ConfigKeys[k]
           next == [c EXCEPT !.i = k]
           called == [next EXCEPT !.calls = @ \cup {key}]
       IN  IF c.bundle[k] \in {"absent", "empty"} THEN ConfigLoop(next)
           ELSE IF Bypasses(key)
             THEN ConfigLoop([next EXCEPT !.decrypted[k] = c.bundle[k]])
           ELSE IF c.pair = "undefined"
             THEN LET d == DecryptCaught(called)
                  IN  IF d.pc = "failed" THEN d ELSE ConfigLoop(d)
           ELSE [called EXCEPT !.pc = "decrypt"]

\* decrypted.oauthResult as the OAuth constructor reads it: the tokens of the
\* session, 0 where there is none.
SessionOf(c) ==
  IF c.decrypted[4] = "clear" THEN Secret("oauthResult")
  ELSE [type |-> "object", access_token |-> 0, refresh_token |-> 0]

\* JWE.importPair is called: it awaits jose.importSPKI and importPKCS8 and
\* assigns this.pair afterwards.
importPair(j) == [j EXCEPT !.imports = @ + 1]

\* The import settles: the pair is assigned, or the promise of importPair
\* rejects.  Nothing awaits that promise: the unhandledRejection handler of
\* the process logs the error.
Settled(j) ==
  [j EXCEPT !.imports = @ - 1, !.pair = IF j.valid THEN "imported" ELSE @]

\* JWE.importBase64Pair: this.importPair({...}), not awaited.  Whether the
\* import has settled by the time importBase64Pair's own promise has is up
\* to the key import of the jose build (synchronous node:crypto or WebCrypto).
importBase64Pair(j, settled) ==
  IF settled THEN Settled(importPair(j)) ELSE importPair(j)

\* Config.validateKeys, the keys being there: await importBase64Pair.
validateKeys(j, settled) == importBase64Pair(j, settled)

\* makeConfig: the configuration schema having fields, validateKeys was
\* awaited and the import it began has settled since.
MakeConfig(valid) == Settled(importPair(Codec(valid, "undefined", 0)))

\* An import in flight settles.
ImportDone ==
  /\ _jwe.imports > 0
  /\ _jwe' = Settled(_jwe)
  /\ UNCHANGED <<transportVars, clientVars, inboundVars,
                 dispatchVars, cfg, jwe, main>>

\* dispatcher.onConfig(secrets) is called: decryptConfig awaits
\* config.validateKeys.
SetConfig(bundle) ==
  /\ cfg.pc = "idle"
  /\ ~theOAuth
  /\ cfg' = [NoConfig EXCEPT !.pc = "keys", !.bundle = bundle,
                             !.decrypted = [k \in DOMAIN ConfigKeys |-> "unset"]]
  /\ UNCHANGED <<transportVars, clientVars, inboundVars,
                 dispatchVars, jwe, _jwe, main>>

\* onConfig from the state c of decryptConfig on, up to its next await.  When
\* decryptConfig has returned, patchStartOAuth and patchFinishOAuth assign
\* the two handlers, makeOAuth builds the session from decrypted.oauthResult
\* and start() is called with the decrypted configuration.
OnConfigContinue(c) ==
  IF c.pc = "decrypted"
    THEN /\ cfg' = [c EXCEPT !.pc = "started", !.started = TRUE]
         /\ NewSession(SessionOf(c).access_token, SessionOf(c).refresh_token)
         /\ patched' = TRUE
    ELSE /\ cfg' = c
         /\ UNCHANGED <<theOAuth, access_token, refresh_token, nTok,
                        refreshTimer, patched>>

\* config.validateKeys has run: it has resolved, or it has rejected, the
\* keys missing (ok = FALSE), and onConfig with it.
KeysValidated(ok) ==
  /\ cfg.pc = "keys"
  /\ IF ok
       THEN \E settled \in BOOLEAN :
              /\ _jwe' = validateKeys(_jwe, settled)
              /\ OnConfigContinue(ConfigLoop([cfg EXCEPT !.pair = _jwe'.pair]))
       ELSE /\ UNCHANGED _jwe
            /\ OnConfigContinue([cfg EXCEPT !.pc = "nokeys"])
  /\ UNCHANGED <<transportVars, fetchVars, _oauth, saves, nUpdates, clients,
                 tick, refreshed, nTicks, inboundVars, invoked,
                 dispatched, jwe, main>>

\* jwe.decrypt(value, config.id()) has settled for the key at cfg.i: its
\* result is assigned, or the catch logs its error; the loop goes on.
DecryptContinue ==
  /\ cfg.pc = "decrypt"
  /\ LET r == DecryptEntry(ConfigKeys[cfg.i], cfg.bundle[cfg.i], now)
         c == IF r.ok THEN [cfg EXCEPT !.decrypted[cfg.i] = "clear"]
              ELSE DecryptCaught(cfg)
     IN  OnConfigContinue(IF c.pc = "failed" THEN c
                          ELSE ConfigLoop([c EXCEPT !.pair = _jwe.pair]))
  /\ UNCHANGED <<transportVars, fetchVars, _oauth, saves, nUpdates, clients,
                 tick, refreshed, nTicks, inboundVars, invoked, dispatched, jwe,
                 _jwe, main>>

(***************************************************************************)
(* RuntimeContext: the main callback that Dispatcher.build's start() calls *)
(* at the end of every onConfig.  main.pc[k] is the position of call k:    *)
(* "none", "stopping" (controller._doStop is awaited), "starting"          *)
(* (_doStart is awaited), "checking" (the first healthCheck is awaited) or *)
(* "done".                                                                 *)
(***************************************************************************)
\* clearInterval(healthInterval)
ClearInterval(m) == [m EXCEPT !.armed = @ \ {m.healthInterval}]

\* healthInterval = setInterval(() => healthCheck(controller), 30000).unref()
SetInterval(m, k) == [m EXCEPT !.healthInterval = k, !.armed = @ \cup {k}]

At(m, k, pc) == [m EXCEPT !.pc[k] = pc]

\* The packet healthCheck sends.
HealthPacket(ok) == [method |-> "connector.health.check", ok |-> ok]

\* start(transport) is called by onConfig: main clears the interval and
\* awaits controller._doStop().
MainStart(k) ==
  /\ k \in 1..MaxPushes
  /\ main.pc[k] = "none"
  /\ \A j \in 1..(k - 1) : main.pc[j] # "none"
  /\ main' = At(ClearInterval(main), k, "stopping")
  /\ UNCHANGED <<transportVars, clientVars, inboundVars, dispatchVars, cfg, jwe,
                 _jwe>>

\* controller._doStop() has settled: _doStart(...) is awaited, or the catch
\* logs what stop() threw.
StopDone(k, ok) ==
  /\ k \in 1..MaxPushes
  /\ main.pc[k] = "stopping"
  /\ main' = At(main, k, IF ok THEN "starting" ELSE "done")
  /\ UNCHANGED <<transportVars, clientVars, inboundVars, dispatchVars, cfg, jwe,
                 _jwe>>

\* controller._doStart() has settled: the interval is set and the first
\* healthCheck(controller) is awaited, or the catch logs what start() threw.
StartDone(k, ok) ==
  /\ k \in 1..MaxPushes
  /\ main.pc[k] = "starting"
  /\ main' = IF ok THEN At(SetInterval(main, k), k, "checking")
             ELSE At(main, k, "done")
  /\ UNCHANGED <<transportVars, clientVars, inboundVars, dispatchVars, cfg, jwe,
                 _jwe>>

\* healthCheck(controller) resumes after the checks it awaits: the result is
\* sent with transport.send (push and schedule()), and main returns.
CheckDone(k, ok) ==
  /\ k \in 1..MaxPushes
  /\ main.pc[k] = "checking"
  /\ main' = At(main, k, "done")
  /\ packets' = Append(packets, Packet(HealthPacket(ok)))
  /\ nSent' = nSent + 1
  /\ timers' = SetTimeout(timers, "schedule0", 0)
  /\ UNCHANGED <<phase, connVars, sockVars, cleaner, wire, callVars, timeVars,
                 clientVars, inboundVars, dispatchVars, cfg, jwe, _jwe>>

(***************************************************************************)
(* Specifications.                                                         *)
(***************************************************************************)
\* The handshake, the socket session, the send path and the shutdown, with
\* timers that fire at any time after they were set.
Next ==
  \/ \E r \in inflight, status \in Statuses : Respond(r, status)
  \/ \E r \in inflight : ConnectContinue(r)
  \/ \E r \in inflight : RegisterContinue(r)
  \/ RetryFire
  \/ ReconnectFire
  \/ \E i \in 1..MaxSockets : SocketOpen(i)
  \/ \E i \in 1..MaxSockets : SocketPing(i)
  \/ \E i \in 1..MaxSockets : WatchdogFire(i)
  \/ \E i \in 1..MaxSockets : SocketClose(i)
  \/ Send
  \/ Schedule0
  \/ Sigterm
  \/ \E r \in inflight : DisconnectContinue(r)
  \/ GraceFire
  \/ Exit

Spec == Init /\ [][Next]_vars

\* The correlation table under the clock: registrations, replies, the sweep,
\* and the first handshake up to Transport.start.
NextCalls ==
  \/ \E r \in inflight : Respond(r, "200")
  \/ \E r \in inflight : ConnectContinue(r)
  \/ \E throws \in BOOLEAN : NewPacket(throws)
  \/ \E k \in 1..MaxCalls : OnMessage(k)
  \/ Clean
  \/ Tick

SpecCalls == Init /\ [][NextCalls]_vars

\* Spec with the fairness the event loop gives: a timer that was set fires
\* and a continuation whose fetch has come back runs.  The watchdog is left
\* out (whether it fires depends on the server's pings), and so is everything
\* the environment does.
FairSpec ==
  /\ Spec
  /\ WF_vars(Schedule0)
  /\ WF_vars(RetryFire)
  /\ WF_vars(ReconnectFire)
  /\ WF_vars(GraceFire)
  /\ WF_vars(Exit)
  /\ WF_vars(\E r \in inflight : ConnectContinue(r))
  /\ WF_vars(\E r \in inflight : RegisterContinue(r))
  /\ WF_vars(\E r \in inflight : DisconnectContinue(r))

\* The HTTP clients: a connector whose clients are built with any retry
\* budget processes set-config, hands out clients and makes one fetch call,
\* with the session persisted over the transport.
InitFetch ==
  /\ TransportInit
  /\ \E budget \in 0..MaxRetry : ClientInit(budget, DefaultOptions)
  /\ ServerInit

NextFetch ==
  \/ \E at \in {0, 1}, rt \in {0, 2} : MakeOAuth(at, rt)
  \/ GetClient
  \/ \E isOAuth \in BOOLEAN : FetchStart(isOAuth)
  \/ \E status \in FetchStatuses : FetchResponse(status)
  \/ \E outcome \in ExchangeOutcomes : ExchangeDone(outcome)
  \/ BackoffFire
  \/ SaveContinue

SpecFetch == InitFetch /\ [][NextFetch]_vars

\* SpecFetch with the fairness the event loop gives a call: the awaited
\* request settles (it carries AbortSignal.timeout), the awaited token
\* exchange settles, and the timer of onError fires.
FairSpecFetch ==
  /\ SpecFetch
  /\ WF_vars(\E status \in FetchStatuses : FetchResponse(status))
  /\ WF_vars(\E outcome \in ExchangeOutcomes : ExchangeDone(outcome))
  /\ WF_vars(BackoffFire)

\* The OAuth session: a connector built with any oauth options processes
\* set-config, hands out clients, runs the periodic refresh next to a fetch
\* call that is answered 200 or 401, and persists the session.
InitOAuth ==
  /\ TransportInit
  /\ \E options \in OAuthOptions : ClientInit(defaultRetry, options)
  /\ ServerInit

NextOAuth ==
  \/ \E at \in {0, 1}, rt \in {0, 2} : MakeOAuth(at, rt)
  \/ GetClient
  \/ FetchStart(TRUE)
  \/ \E status \in {"200", "401"} : FetchResponse(status)
  \/ \E outcome \in ExchangeOutcomes : ExchangeDone(outcome)
  \/ BackoffFire
  \/ SaveContinue
  \/ PeriodicFire
  \/ \E outcome \in ExchangeOutcomes : PeriodicExchangeDone(outcome)

SpecOAuth == InitOAuth /\ [][NextOAuth]_vars

\* The Dispatcher by itself: processPacket is called with every packet, on a
\* connector with and without a __default resolver.
NextDispatch ==
  /\ Len(dispatched) < MaxJobs
  /\ \E packet \in DispatchPackets, hasDefault \in BOOLEAN,
        behaviour \in Behaviours :
       Dispatch(packet, hasDefault, behaviour)

SpecDispatch == Init /\ [][NextDispatch]_vars

\* The inbound path: the handshake succeeds and the socket opens, calls are
\* registered, frames arrive, and the server processes their packets.
NextInbound ==
  \/ \E r \in inflight : Respond(r, "200")
  \/ \E r \in inflight : ConnectContinue(r)
  \/ \E i \in 1..MaxSockets : SocketOpen(i)
  \/ \E throws \in BOOLEAN : NewPacket(throws)
  \/ \E i \in 1..MaxSockets, frame \in InboundFrames : SocketMessage(i, frame)
  \/ OnMessages
  \/ \E j \in 1..(MaxFrames * MaxBatch), behaviour \in {"value", "null", "throws"} :
       OnMessageContinue(j, behaviour)

SpecInbound == Init /\ [][NextInbound]_vars

\* The codec by itself: a payload is encrypted for an audience and the token
\* is decrypted by that audience or by another.
NextCodec ==
  \/ \E payload \in Payloads, expiration \in Expirations, audience \in Audiences :
       EncryptPayload(payload, expiration, audience)
  \/ \E audience \in Audiences : DecryptToken(audience)

SpecCodec == Init /\ [][NextCodec]_vars

\* set-config: onConfig runs on every bundle.
\* The connector was started with keys that can be imported or with keys
\* that cannot.
InitConfig ==
  /\ TransportInit
  /\ ClientInit(defaultRetry, DefaultOptions)
  /\ DispatcherInit
  /\ \E valid \in BOOLEAN : _jwe = MakeConfig(valid)

NextConfig ==
  \/ \E bundle \in Bundles : SetConfig(bundle)
  \/ \E ok \in BOOLEAN : KeysValidated(ok)
  \/ DecryptContinue
  \/ ImportDone

SpecConfig == InitConfig /\ [][NextConfig]_vars

\* The heartbeat under the clock: the handshake succeeds, sockets open, the
\* server pings or not, a watchdog fires when it is due, sockets close and
\* the transport reconnects, until a signal makes it leave.
NextHeartbeat ==
  \/ \E r \in inflight : Respond(r, "200")
  \/ \E r \in inflight : ConnectContinue(r)
  \/ ReconnectFire
  \/ \E i \in 1..MaxSockets : SocketOpen(i)
  \/ \E i \in 1..MaxSockets : SocketPing(i)
  \/ \E i \in 1..MaxSockets : WatchdogTimeout(i)
  \/ \E i \in 1..MaxSockets : SocketClose(i)
  \/ Sigterm
  \/ Clean
  \/ Tick

SpecHeartbeat == Init /\ [][NextHeartbeat]_vars

\* The inbound path with the packets that ask for an answer: every frame
\* brings one packet with a correlation id, a command or a packet without
\* method (a reply), and the handlers behave in each of their ways.
ReplyItems == {PacketOf(1, m, <<"ping">>) : m \in Command \cup {"none"}}

NextReplies ==
  \/ \E r \in inflight : Respond(r, "200")
  \/ \E r \in inflight : ConnectContinue(r)
  \/ \E i \in 1..MaxSockets : SocketOpen(i)
  \/ \E throws \in BOOLEAN : NewPacket(throws)
  \/ \E i \in 1..MaxSockets, item \in ReplyItems :
       SocketMessage(i, Frame(TRUE, <<item>>))
  \/ OnMessages
  \/ \E j \in 1..MaxFrames, behaviour \in Behaviours : OnMessageContinue(j, behaviour)

SpecReplies == Init /\ [][NextReplies]_vars

\* The main callback under set-config pushes whose processing may overlap.
NextMain ==
  \/ \E k \in 1..MaxPushes : MainStart(k)
  \/ \E k \in 1..MaxPushes, ok \in BOOLEAN : StopDone(k, ok)
  \/ \E k \in 1..MaxPushes, ok \in BOOLEAN : StartDone(k, ok)
  \/ \E k \in 1..MaxPushes, ok \in BOOLEAN : CheckDone(k, ok)

SpecMain == Init /\ [][NextMain]_vars

(***************************************************************************)
(* Claims.                                                                 *)
(***************************************************************************)
IsPrefix(s, t) == Len(s) <= Len(t) /\ SubSeq(t, 1, Len(s)) = s

Invocations(k) == {i \in DOMAIN fired : fired[i][1] = k}

\* C1: a pending call whose reply never arrives is resolved by the periodic
\* sweep, whenever it was registered: no entry stays in the correlation table
\* beyond the 5 minutes of the timeout plus the 45 s of one sweep period.
C1_SweepResolvesEveryCall ==
  \A k \in DOMAIN callbacks :
    now - callbacks[k].created <= callbackTimeout + cleanInterval

\* C2: the callback registered for a correlation id is invoked at most once,
\* whatever the order of replies, duplicate or late replies and sweeps, and
\* once it was invoked its entry is gone from the table, also when it threw.
C2_CallbackAtMostOnce ==
  \A k \in 1..nCalls :
    /\ Cardinality(Invocations(k)) <= 1
    /\ Invocations(k) # {} => k \notin DOMAIN callbacks

\* C2's case: the sweep has timed out a call whose callback threw, and the
\* late reply to it has arrived since.
C2_Witness ==
  \E i \in DOMAIN fired :
    fired[i][2] = "timeout" /\ fired[i][3] /\ fired[i][1] \in handed

\* The transport is not connected: no socket yet, or the current socket has
\* not had its 'open' event or has had its 'close' event, or close() was
\* called.
NotConnected ==
  \/ ws = 0
  \/ socks[ws].state \in {"connecting", "closed"}
  \/ phase \in {"closed", "exited"}

\* C3: while the transport is not connected nothing is written to a socket
\* and the packets passed to send() stay in the outbound queue, as they are.
C3_NothingWrittenWhileDisconnected ==
  [][NotConnected => wire' = wire /\ IsPrefix(packets, packets')]_vars

\* C3's case: a packet was passed to send() while disconnected, the flush it
\* scheduled has run, and the packet is still queued.
C3_Witness ==
  /\ NotConnected
  /\ ~connected
  /\ packets = <<Packet(1)>>
  /\ Pending("schedule0") = {}

\* The queue holds only Packets as send() queued them: no flush has failed and
\* requeued its batch.
Intact(q) == \A i \in DOMAIN q : q[i][1] = "Packet"

\* C4: packets queued while disconnected are written once the socket has
\* opened: whenever the socket is open with queued packets still unwritten,
\* they are eventually all taken off the queue and written, unless the socket
\* is lost again, a write throws, or shutdown begins first.
C4_QueuedPacketsFlushedOnOpen ==
  (/\ phase = "up"
   /\ connected
   /\ SocketState(socks) = "open"
   /\ packets # <<>>
   /\ Intact(packets))
    ~> \/ packets = <<>>
       \/ SocketState(socks) # "open"
       \/ ~Intact(packets)
       \/ phase # "up"

\* C5: when the socket send throws during a flush, the failed batch is put
\* back at the front of the queue in its original order and with its
\* original content: the queue is what it was before the flush.
C5_FailedBatchRequeuedInOrder ==
  [][(/\ CanFlush(packets, connected)
      /\ Drain(packets).batch # <<>>
      /\ Pending("schedule0") # {}
      /\ timers' = Fired(Timer("schedule0", 0))
      /\ wire' = wire
      /\ packets' # Drain(packets).rest)
     => packets' = packets]_vars

\* C6: after leaving() no reconnect attempt is made: no connect or register
\* request is issued and no socket is created.
C6_NoReconnectAfterLeaving ==
  [][_leaving => nReq' = nReq /\ Len(socks') = Len(socks)]_vars

\* C7: Transport.close() is terminal: when it has returned the socket is
\* terminated (neither open nor opening), the ping and sweep timers are
\* cleared, and the transport is not running, so that the socket's 'close'
\* event triggers no reconnect.
C7_CloseIsTerminal ==
  phase \in {"closed", "exited"} =>
    /\ ws # 0 => socks[ws].state \in {"closing", "closed"}
    /\ pinger \notin pingers
    /\ ~cleaner
    /\ ~running

ReconnectTimer == Timer("WebsocketConnector.start", reconnectDelay)
RetryTimer == Timer("Connection.start", retryDelay)

\* The sockets whose 'close' event is handled in this step.
ClosedInStep == {i \in 1..Len(socks) : socks[i].state # "closed" /\ socks'[i].state = "closed"}

\* The requests whose continuation runs in this step.
ContinuedInStep(kind) ==
  {r \in inflight : r.kind = kind /\ r.resp # "pending" /\ r \notin inflight'}

\* C8: a socket close while the transport is running sets exactly one
\* reconnect timer, with the fixed delay, and nothing else does; when that
\* timer fires Connection.start is entered again (a connect request is
\* issued); and a connect answered with 200, leaving() not having been
\* called, opens a new socket.
C8_ReconnectOncePerClose ==
  [][/\ ClosedInStep # {} =>
          /\ timers' = (IF running THEN timers (+) SetToBag({ReconnectTimer}) ELSE timers)
          /\ nReq' = nReq
     /\ ClosedInStep = {} =>
          /\ \A t \in BagToSet(timers') :
               t.fn = "WebsocketConnector.start" => CopiesIn(t, timers') <= CopiesIn(t, timers)
     /\ CopiesIn(ReconnectTimer, timers') < CopiesIn(ReconnectTimer, timers) =>
          /\ timers' = timers (-) SetToBag({ReconnectTimer})
          /\ nReq' = nReq + 1
          /\ inflight' = inflight \cup {ConnectRequest(nReq + 1, token)}
     /\ \A r \in ContinuedInStep("connect") :
          r.resp = "200" /\ ~_leaving =>
            /\ Len(socks') = Len(socks) + 1
            /\ socks'[Len(socks')].state = "connecting"
            /\ running'
    ]_vars

\* C8's case: the first socket has closed while the transport was running and
\* the reconnect has led to a second socket.
C8_Witness ==
  /\ Len(socks) = 2
  /\ socks[1].state = "closed"
  /\ socks[2].state = "open"
  /\ ~_leaving

\* C9: the handshake state machine of Connection.start.  401 to connect: one
\* register request, authenticated with the registration token, and nothing
\* else; 200 to register: the key is stored as session token and a connect
\* carrying it is issued; 200 to connect: hand-off to Transport.start; any
\* other status or a network error: one timer of 5 s, which on firing issues
\* a connect.  A socket is created only in the step that handles a connect
\* answered with 200.
C9_HandshakeStateMachine ==
  [][/\ \A r \in ContinuedInStep("connect") :
          /\ r.resp = "401" =>
               /\ inflight' = (inflight \ {r}) \cup {RegisterRequest(nReq + 1)}
               /\ nReq' = nReq + 1
               /\ UNCHANGED <<timers, socks, token>>
          /\ r.resp = "200" =>
               /\ inflight' = inflight \ {r}
               /\ UNCHANGED <<timers, nReq, token>>
               /\ ~_leaving => socks' = Append(socks, NewSocket)
          /\ r.resp \in {"500", "error"} =>
               /\ inflight' = inflight \ {r}
               /\ timers' = timers (+) SetToBag({RetryTimer})
               /\ UNCHANGED <<nReq, socks, token>>
     /\ \A r \in ContinuedInStep("register") :
          r.resp = "200" =>
            /\ token' = r.id
            /\ inflight' = (inflight \ {r}) \cup {ConnectRequest(nReq + 1, r.id)}
            /\ nReq' = nReq + 1
            /\ UNCHANGED <<timers, socks>>
     /\ CopiesIn(RetryTimer, timers') < CopiesIn(RetryTimer, timers) =>
          /\ nReq' = nReq + 1
          /\ inflight' = inflight \cup {ConnectRequest(nReq + 1, token)}
     /\ Len(socks') > Len(socks) =>
          \E r \in ContinuedInStep("connect") : r.resp = "200"
    ]_vars

\* C9's case: a run through 401, registration, a failed and retried connect,
\* and the hand-off: the session token is the registration's key and a socket
\* was created.
C9_Witness ==
  /\ token # 0
  /\ nReq = MaxReq
  /\ Len(socks) = 1
  /\ inflight = {}

\* C10: a registration answered with a status other than 200 is fatal: no
\* connect or register request is issued after it.
C10_RegistrationFailureIsFatal ==
  [][regFailed => nReq' = nReq]_vars


(***************************************************************************)
(* Claims about the HTTP clients.                                          *)
(***************************************************************************)
Last(q) == q[Len(q)]

AllAre(q, x) == \A i \in DOMAIN q : q[i] = x

\* C11: a fetch call with retry budget N whose every attempt is answered 500
\* makes N + 1 attempts, that is N retries, each 500 ms after the failure
\* before it, and then throws.
C11_ExactlyNRetriesOn500 ==
  (call.pc = "threw" /\ AllAre(call.events, "500"))
    => /\ Len(call.events) = retry + 1
       /\ call.waits = [i \in 1..retry |-> errorDelay]

\* C12: a 429 response always leads to a retry after 10 s, whatever budget is
\* left, and the retry is made with the budget the failed attempt had.
C12_RateLimitKeepsBudget ==
  [][/\ call'.events = Append(call.events, "429")
          => /\ call'.pc = "wait"
             /\ call'.delay = rateLimitDelay
             /\ call'.waits = Append(call.waits, rateLimitDelay)
             /\ call'.retries = call.retries
     /\ (call.pc = "wait" /\ call'.pc \in {"request", "exchange"})
          => call'.retries = call.retries]_vars

\* C12's case: the call was on its last attempt, was answered 429 and has
\* made the retry, still on its last attempt.
C12_Witness ==
  /\ retry = 1
  /\ call.events = <<"429">>
  /\ call.pc = "request"
  /\ call.retries = 1
  /\ Len(call.bearers) = 2

\* C13: a response with status 400 or 422 is never retried: it is the last
\* thing the call meets, the call throws and no timer is set for it.
C13_BadRequestNeverRetried ==
  \A i \in DOMAIN call.events :
    call.events[i] \in {"400", "422"}
      => /\ i = Len(call.events)
         /\ call.pc = "threw"
         /\ Len(call.waits) = i - 1

\* C13's case: the first attempt of a call with retries to spare was
\* answered 422 and the call has thrown.
C13_Witness ==
  /\ call.pc = "threw"
  /\ call.events = <<"422">>
  /\ Len(call.bearers) = 1
  /\ call.retries > 1

\* C14: an OAuthFetcher call answered 401 and then 200 has made exactly one
\* forced token exchange and exactly one retry, and the retry carried the
\* access token that exchange returned.
C14_Single401RefreshesOnce ==
  (call.oauth /\ call.events = <<"401", "200">>)
    => /\ call.forced = 1
       /\ call.waits = <<errorDelay>>
       /\ Len(call.bearers) = 2
       /\ call.bearers[2] = call.minted
       /\ call.bearers[2] > call.bearers[1]

\* C14's case: such a call has returned.
C14_Witness ==
  /\ call.oauth
  /\ call.events = <<"401", "200">>
  /\ call.pc = "returned"
  /\ call.bearers[1] # 0

\* C15: an OAuthFetcher call whose retry after the forced refresh is answered
\* 401 again throws there: two attempts, one forced exchange, nothing more.
C15_Second401Propagates ==
  (/\ call.oauth
   /\ Len(call.events) >= 2
   /\ call.events[1] = "401"
   /\ call.events[2] = "401")
    => /\ call.pc = "threw"
       /\ Len(call.events) = 2
       /\ call.forced = 1

\* A step in which an OAuthFetcher begins an invocation of fetch, and with
\* it getToken(call.force).
GetsToken == call.pc \in {"none", "wait"} /\ call'.pc # call.pc /\ call'.oauth

CallExchangeFails ==
  call.pc = "exchange" /\ call'.events = Append(call.events, "refresh-failed")

TickExchangeFails ==
  tick.pc = "exchange" /\ tick'.pc = "idle" /\ tick'.failed

\* C16: when a token exchange fails the error reaches the caller (the fetch
\* call's catch block runs, the periodic refresh is abandoned), the access
\* token is invalidated and the refresh token stays as it is; the next
\* getToken(false) then does not reuse a token but starts an exchange.
C16_FailedRefreshInvalidates ==
  [][/\ CallExchangeFails
          => /\ access_token' = 0
             /\ refresh_token' = refresh_token
             /\ call'.pc \in {"wait", "threw"}
     /\ TickExchangeFails
          => /\ access_token' = 0
             /\ refresh_token' = refresh_token
     /\ (/\ call.pc = "wait"
         /\ ~call.force
         /\ access_token = 0
         /\ refresh_token # 0
         /\ call'.pc # "wait")
          => call'.pc = "exchange"]_vars

\* C16's case: the session held an access token, the forced exchange after
\* a 401 failed, and the retry, made with getToken(false), is exchanging the
\* refresh token that is still there.
C16_Witness ==
  /\ call.events = <<"401", "refresh-failed">>
  /\ call.bearers = <<1>>
  /\ call.pc = "exchange"
  /\ ~call.force
  /\ access_token = 0
  /\ refresh_token = 2

\* C17: a tick of the periodic refresh that ran to its end has called
\* periodicRefresh() exactly once on each client created through getClient().
C17_EveryClientRefreshedOnce ==
  (nTicks > 0 /\ tick.pc = "idle" /\ ~tick.failed /\ tick.i = clients)
    => \A c \in 1..clients : refreshed[c] = 1

\* C18: once set-config is processed, no refresh interval is armed when the
\* connector's noPeriodicTokenRefresh is true, and one is armed when the
\* option is absent.
C18_NoTimerWhenDisabled ==
  theOAuth
    => /\ _oauth.noPeriodicTokenRefresh = "true" => refreshTimer = 0
       /\ _oauth.noPeriodicTokenRefresh = "unset" => refreshTimer # 0

\* C19: the refresh interval's period is the configured tokenRefreshPeriod,
\* or 4 hours when none is configured.
C19_DefaultPeriodFourHours ==
  refreshTimer # 0
    => refreshTimer = IF _oauth.tokenRefreshPeriod # 0
                        THEN _oauth.tokenRefreshPeriod
                        ELSE 4 * 60 * 60 * 1000

\* The config-update packets in the outbound queue.
Persisted == {i \in DOMAIN packets : packets[i][1] = "Packet"}

\* C20: every OAuth.update() persists the session: one config-update packet
\* per update is put on the transport's queue, and it carries the session
\* encrypted without expiry for the connector id, with the access token of
\* that update (or of a later one) and the current refresh token.
C20_EveryUpdatePersisted ==
  /\ [](Cardinality(Persisted) + Len(saves) = nUpdates)
  /\ [][Len(packets') > Len(packets)
          => LET value == Last(packets')[2].value IN
               /\ Len(packets') = Len(packets) + 1
               /\ Last(packets')[2].method = "connector.config-update"
               /\ value.exp = "unset"
               /\ value.aud = connectorId
               /\ value._data.refresh_token = refresh_token
               /\ value._data.access_token # 0
               /\ value._data.access_token >= Head(saves)]_vars

\* An exchange of the refresh token is awaited by the fetch call, or by the
\* periodic refresh, and OAuth.update has stored a token since it began.
CallOvertaken == call.pc = "exchange" /\ nUpdates > call.seen /\ access_token # 0
TickOvertaken == tick.pc = "exchange" /\ nUpdates > tick.seen /\ access_token # 0

\* C32: the OAuth session is a single-writer resource under concurrent use:
\* for any interleaving of concurrent getToken(true) calls on one session (a
\* call that received 401 overlapping the periodic refresh), once one refresh
\* has succeeded and stored a new access token, that token is not set back to
\* null by the failure of another refresh exchange that was started before it
\* was stored.
C32_StoredTokenSurvivesStaleFailure ==
  [][/\ (CallOvertaken /\ call'.pc # "exchange") => access_token' # 0
     /\ (TickOvertaken /\ tick' # tick) => access_token' # 0]_vars

(***************************************************************************)
(* Claims about the Dispatcher.                                            *)
(***************************************************************************)
\* The query of a packet names a reserved segment.
HasReserved(query) == \E i \in DOMAIN query : query[i] \in Reserved

\* C21: a query whose path contains a reserved segment ('__proto__',
\* 'constructor', 'toString', 'toSource', 'prototype') is rejected with an
\* error, and neither a resolver nor the default handler is invoked for it.
C21_ReservedSegmentRejected ==
  \A i \in DOMAIN dispatched :
    LET d == dispatched[i] IN
      (d.packet.m = "connector.query" /\ HasReserved(d.packet.q))
        => d.result.threw # "" /\ d.result.invoked = <<>>

\* C24: processPacket accepts exactly the commands connector.introspect,
\* connector.start-oauth, connector.finish-oauth, connector.query and
\* connector.set-config; for every other method, and for a packet without
\* method, it throws 'cannot handle packet', invokes no handler and leaves
\* the state of the dispatcher as it was.
C24_ExactlyFiveCommands ==
  \A i \in DOMAIN dispatched :
    LET d == dispatched[i] IN
      /\ d.packet.m \in Command
           => d.result.threw # "Error: cannot handle packet"
      /\ d.packet.m \notin Command
           => /\ d.result.threw = "Error: cannot handle packet"
              /\ d.result.invoked = <<>>
              /\ ~d.result.patches

\* C24's case: a packet with an unknown method was processed after
\* set-config, and the five commands are processed too.
C24_Witness ==
  /\ Len(dispatched) = 2
  /\ dispatched[1].packet.m = "connector.set-config"
  /\ dispatched[1].result.patches
  /\ dispatched[2].packet.m = "connector.ping"
  /\ dispatched[2].patched

\* The segments that name a key of the resolver table.
Ordinary(query) ==
  \A i \in DOMAIN query : query[i] \in {"ping", "companies", "getPage"}

\* The one invocation of a processed packet is this one.
InvokedOnly(d, name, path, received) ==
  d.result.invoked = <<<<name, path, received>>>>

\* C31: a query with the path ['companies', 'getPage'] invokes exactly the
\* handler stored at resolvers.companies.getPage, with the variables
\* supplied; a query whose path matches no handler invokes the __default
\* resolver if one is registered, and fails with a 'not found' error and
\* invokes nothing otherwise.  Stated for the paths made of keys of the table.
C31_QueryResolves ==
  \A i \in DOMAIN dispatched :
    LET d == dispatched[i] IN
      (d.packet.m = "connector.query" /\ Ordinary(d.packet.q)) =>
        IF d.packet.q \in Functions
          THEN InvokedOnly(d, "own", d.packet.q, Received(d.packet.v, FALSE, <<>>))
        ELSE IF d.hasDefault
          THEN /\ Len(d.result.invoked) = 1
               /\ d.result.invoked[1][1] = "__default"
        ELSE d.result.threw = "Error: not found" /\ d.result.invoked = <<>>

\* C34: when a query matches no handler and falls back to the __default
\* resolver, the default handler receives the complete requested path, every
\* segment of the query that the filter keeps, in order, in
\* variables.__method; and the 'not found' error raised when there is no
\* default names the complete path.
C34_CompletePathReported ==
  \A i \in DOMAIN dispatched :
    LET d == dispatched[i]
        path == Slice(Filter(d.packet.q))
    IN  d.packet.m = "connector.query" =>
          /\ \A k \in DOMAIN d.result.invoked :
               d.result.invoked[k][1] = "__default" =>
                 /\ d.result.invoked[k][3].has
                 /\ d.result.invoked[k][3].__method = path
          /\ d.result.threw = "Error: not found" => d.result.named = path

\* C36: a connector.query never invokes a function that was not supplied in
\* the resolver table: a path that names a property inherited from the object
\* prototype and not in the deny-list ('hasOwnProperty') does not resolve to
\* a callable and is treated as not found.
C36_OnlySuppliedFunctions ==
  \A i \in DOMAIN dispatched :
    LET d == dispatched[i] IN
      d.packet.m = "connector.query" =>
        /\ \A k \in DOMAIN d.result.invoked :
             \/ d.result.invoked[k][1] = "__default" /\ d.hasDefault
             \/ d.result.invoked[k][1] = "own" /\ d.result.invoked[k][2] \in Functions
        /\ d.packet.q = <<"hasOwnProperty">> =>
             IF d.hasDefault THEN d.result.invoked # <<>>
             ELSE d.result.threw = "Error: not found"

(***************************************************************************)
(* Claims about the inbound path.                                          *)
(***************************************************************************)
RECURSIVE NonNull(_)
NonNull(items) ==
  IF items = <<>> THEN <<>>
  ELSE (IF Head(items) = Null THEN <<>> ELSE <<Head(items)>>) \o NonNull(Tail(items))

RECURSIVE Batches(_)
Batches(frames) ==
  IF frames = <<>> THEN <<>>
  ELSE (IF Head(frames).json THEN Head(frames).p ELSE <<>>) \o Batches(Tail(frames))

\* The deliveries to one consumer, in order.
RECURSIVE DeliveredTo(_, _)
DeliveredTo(consumer, log) ==
  IF log = <<>> THEN <<>>
  ELSE (IF Head(log)[1] = consumer THEN <<Head(log)[2]>> ELSE <<>>)
         \o DeliveredTo(consumer, Tail(log))

ItemsOf(log) == [i \in DOMAIN log |-> log[i][2]]

\* The replies among the callback invocations, as correlation ids.
RECURSIVE RepliesIn(_)
RepliesIn(log) ==
  IF log = <<>> THEN <<>>
  ELSE (IF Head(log)[2] = "args" THEN <<Head(log)[1]>> ELSE <<>>)
         \o RepliesIn(Tail(log))

\* The first packet of the frame whose timer fires next (Null: it has none).
FirstPacket ==
  LET items == NonNull(Batches(<<Head(inbox)>>))
  IN  IF items = <<>> THEN Null ELSE Head(items)

C23_ErrorRepliedPerPacket ==
  [][Len(dispatched') > Len(dispatched) =>
       LET d == dispatched'[Len(dispatched')] IN
         d.result.threw # "" =>
           /\ packets' =
                (IF d.packet.c # 0
                   THEN Append(packets, Packet([c |-> d.packet.c,
                                               a |-> Args("none", d.result.threw)]))
                   ELSE packets)
           /\ UNCHANGED <<phase, sockVars, inbox, delivered, callbacks>>
           /\ Len(processing') = Len(processing) - 1
           /\ \A item \in InboundItems :
                Cardinality({j \in DOMAIN processing' : processing'[j] = item})
                  = Cardinality({j \in DOMAIN processing : processing[j] = item})
                      - (IF item = d.packet THEN 1 ELSE 0)]_vars

\* C23's case: on a connected transport a packet with a correlation id threw
\* and got its error reply, and a packet received after it was processed
\* and answered.
C23_Witness ==
  /\ connected
  /\ Len(dispatched) = 2
  /\ dispatched[1].result.threw # "" /\ dispatched[1].packet.c # 0
  /\ dispatched[2].result.threw = "" /\ dispatched[2].packet.c # 0
  /\ Len(packets) = 2
  /\ DataOf(packets[1]).a.error = dispatched[1].result.threw
  /\ DataOf(packets[2]).a.result = "value"
  /\ nFrames = 2

\* The packet the server's onMessage has just finished with.
Processed == dispatched'[Len(dispatched')]

\* One packet with correlation id c was added to the outbound queue.
Answered1(c) ==
  /\ Len(packets') = Len(packets) + 1
  /\ SubSeq(packets', 1, Len(packets)) = packets
  /\ DataOf(packets'[Len(packets')]).c = c

\* C33: every inbound command packet that carries a correlation id
\* (introspect, start-oauth, finish-oauth, query, set-config) results in
\* exactly one outbound packet with the same correlation id, carrying either
\* the result or an error; this includes a set-config that succeeds and a
\* query whose handler returns null.
C33_EveryCommandAnswered ==
  [][Len(dispatched') > Len(dispatched) =>
       ((Processed.packet.m \in Command /\ Processed.packet.c # 0)
          => Answered1(Processed.packet.c))]_vars

\* C35: an inbound packet that carries a correlation id matching no pending
\* entry and has no method (a late reply to a call that is gone from the
\* table) is dropped: no outbound packet is enqueued for it.
C35_LateReplyDropped ==
  [][Len(dispatched') > Len(dispatched) =>
       ((Processed.packet.m = "none" /\ Processed.packet.c # 0)
          => packets' = packets)]_vars

(***************************************************************************)
(* Claims about the secret codec and decryptConfig.                        *)
(***************************************************************************)
\* Two JSON values are equal.
JsonEq(a, b) == a.type = b.type /\ a.val = b.val

\* C25: decrypt(encrypt(payload, exp, audience), audience) returns a value
\* equal to payload, for every JSON-serializable payload (object, array,
\* string, number, boolean); decrypt with another audience fails.
C25_RoundTrip ==
  jwe.pc = "decrypted" =>
    IF jwe.reader = jwe.jwt.aud
      THEN jwe.out.ok /\ JsonEq(jwe.out.data, jwe.payload)
      ELSE ~jwe.out.ok

\* decryptConfig has returned.
Decrypted == cfg.pc = "started"

\* The field is marked plain in the schema, or it is endpointUrl.
IsPlain(key) == key \in PlainFields \cup {"endpointUrl"}

\* C26: a field marked plain in the schema, and the allow-listed endpointUrl,
\* is copied to the output unchanged and is never passed to the codec's
\* decrypt; every non-plain field whose entry is validly encrypted is in the
\* output with its decrypted value.
C26_PlainCopiedUnchanged ==
  /\ \A k \in DOMAIN ConfigKeys :
       IsPlain(ConfigKeys[k]) => ConfigKeys[k] \notin cfg.calls
  /\ Decrypted =>
       \A k \in DOMAIN ConfigKeys :
         /\ (IsPlain(ConfigKeys[k]) /\ cfg.bundle[k] # "absent")
              => cfg.decrypted[k] = cfg.bundle[k]
         /\ (~IsPlain(ConfigKeys[k]) /\ cfg.bundle[k] = "jwe")
              => cfg.decrypted[k] = "clear"

\* The fields whose decryption fails: the entry is not a token for this
\* connector, or the codec has no pair to decrypt with.
Corrupt(k) ==
  /\ ~IsPlain(ConfigKeys[k])
  /\ \/ cfg.bundle[k] \in {"text", "foreign"}
     \/ cfg.bundle[k] = "jwe" /\ _jwe.pair = "undefined"

\* C27: when the decryption of a field fails, only that field is absent from
\* the output: no error is propagated, the other fields are processed and
\* returned as without the failure, and onConfig goes on to build the session
\* and to start the business logic.
C27_FieldFailureIsLocal ==
  /\ [](cfg.pc # "failed")
  /\ [](Decrypted =>
          /\ cfg.started /\ theOAuth
          /\ \A k \in DOMAIN ConfigKeys :
               cfg.decrypted[k] =
                 (CASE Corrupt(k) -> "unset"
                    [] cfg.bundle[k] \in {"absent", "empty"} -> "unset"
                    [] IsPlain(ConfigKeys[k]) -> cfg.bundle[k]
                    [] OTHER -> "clear"))
  /\ [][(cfg.pc = "decrypt" /\ cfg' # cfg) =>
          /\ cfg'.pc \in {"decrypt", "started"}
          /\ cfg'.i > cfg.i \/ cfg'.pc = "started"
          /\ \A k \in 1..(cfg.i - 1) : cfg'.decrypted[k] = cfg.decrypted[k]]_vars

\* C27's case: the decryption of apiKey failed, the session of oauthResult
\* was decrypted after it, and the business logic was started.
C27_Witness ==
  /\ Decrypted
  /\ cfg.bundle[2] = "foreign" /\ cfg.decrypted[2] = "unset"
  /\ cfg.bundle[4] = "jwe" /\ cfg.decrypted[4] = "clear"
  /\ cfg.calls = {"apiKey", "oauthResult"}
  /\ access_token = 1

\* C37: Config.validateKeys() completes only after the key pair has been
\* imported: when it returns, the codec holds the pair derived from the
\* configured keys and no import is pending, so that a decrypt issued
\* immediately afterwards (as decryptConfig does) never runs with a missing
\* or not-yet-imported pair; and a failing import makes validateKeys fail.
C37_KeysImportedOnReturn ==
  [][(cfg.pc = "keys" /\ cfg'.pc \notin {"keys", "nokeys"}) =>
       /\ _jwe'.valid
       /\ _jwe'.pair = "imported"
       /\ _jwe'.imports = 0
       /\ cfg'.pair = "imported"]_vars

(***************************************************************************)
(* Claims about the heartbeat and the shutdown.                            *)
(***************************************************************************)
\* The watchdog has terminated socket i in this step.
Terminated(i) == socks[i].state = "open" /\ socks'[i].state = "closing"

\* C28: when the socket opens and on each inbound ping the watchdog is armed
\* anew, 45 s (30 s + 15 s) ahead; when 45 s have passed without a ping while
\* the transport is running, the socket is terminated, and its 'close' event
\* schedules the reconnect; the watchdog never terminates a socket whose last
\* ping (or whose opening) is less than 45 s ago.
C28_Heartbeat ==
  /\ [][\A i \in 1..Len(socks) :
          /\ (socks[i].state = "connecting" /\ socks'[i].state = "open")
               => socks'[i].pingTimeout /\ socks'[i].armed = now
          /\ socks'[i].armed # socks[i].armed
               => /\ socks'[i].pingTimeout /\ socks'[i].armed = now
                  /\ socks'[i].state = "open"
          /\ Terminated(i) => running /\ now - socks[i].armed >= 45 * 1000
          /\ (socks[i].state = "closing" /\ socks'[i].state = "closed" /\ running)
               => timers' = SetTimeout(timers, "WebsocketConnector.start",
                                       reconnectDelay)]_vars
  /\ [](\A i \in 1..Len(socks) :
          (socks[i].state = "open" /\ running)
            => socks[i].pingTimeout /\ now - socks[i].armed <= 45 * 1000)

\* C28's case: a socket that was pinged after it opened got no ping for the
\* next 45 s and was terminated by its watchdog.
C28_Witness ==
  \E i \in 1..Len(socks) :
    /\ socks[i].state = "closing"
    /\ socks[i].armed > 0
    /\ now = socks[i].armed + 45 * 1000

\* C29: on a termination signal the steps of the shutdown happen in this
\* order, none before the one before it has finished: leaving (no new work),
\* POST disconnect, the grace period of 10 s, Transport.close, which
\* force-closes the socket, and process.exit.
C29_ShutdownInOrder ==
  /\ [][phase' # phase =>
          <<phase, phase'>> \in {<<"up", "leaving">>, <<"leaving", "grace">>,
                                 <<"grace", "closed">>, <<"closed", "exited">>}]_vars
  /\ [][(phase = "up" /\ phase' = "leaving") =>
          /\ _leaving' /\ ~running'
          /\ inflight' = inflight \cup {DisconnectRequest(token)}]_vars
  /\ [][(phase = "leaving" /\ phase' = "grace") =>
          /\ \E r \in inflight :
               r.kind = "disconnect" /\ r.resp # "pending" /\ r \notin inflight'
          /\ timers' = SetTimeout(timers, "server.close", graceDelay)]_vars
  /\ [][(phase = "grace" /\ phase' = "closed") =>
          /\ Timer("server.close", graceDelay) \in BagToSet(timers)
          /\ timers' = Fired(Timer("server.close", graceDelay))
          /\ ~cleaner' /\ ~connected' /\ ~running'
          /\ pinger \notin pingers'
          /\ ws # 0 => socks'[ws].state \notin {"connecting", "open"}]_vars
  /\ [](phase = "up" => ~_leaving /\ \A r \in inflight : r.kind # "disconnect")
  /\ [](phase \in {"up", "leaving"} => Pending("server.close") = {})

\* The sockets that are open or opening.
LiveSockets == {i \in DOMAIN socks : socks[i].state \in {"connecting", "open"}}

\* The handshake and reconnect chains in progress: the connect and register
\* requests in flight and the pending timers that will call Connection.start
\* or WebsocketConnector.start.
Chains ==
  Cardinality({r \in inflight : r.kind \in {"connect", "register"}})
    + CopiesIn(Timer("Connection.start", retryDelay), timers)
    + CopiesIn(Timer("WebsocketConnector.start", reconnectDelay), timers)

\* C38: at any time there is at most one open or opening socket and at most
\* one handshake or reconnect chain in progress (one connect or register
\* request in flight, or one pending retry or reconnect timer), over all
\* interleavings of socket close, watchdog expiry, handshake retries and
\* reconnect timers.
C38_OneSocketOneChain ==
  /\ Cardinality(LiveSockets) <= 1
  /\ Chains <= 1

\* C38's case: the first socket was closed, a handshake was retried, and the
\* transport is connected again over a second socket.
C38_Witness ==
  /\ Len(socks) = 2
  /\ socks[1].state = "closed"
  /\ socks[2].state = "open"
  /\ nReq = 4

\* C39: for any sequence of set-config pushes, including two pushes whose
\* asynchronous processing overlaps, at most one health-check interval timer
\* is armed at any time: every timer armed by an earlier push is cleared
\* before or when a later one is armed.
C39_OneHealthInterval == Cardinality(main.armed) <= 1

(***************************************************************************)
(* Claims about the termination of Fetcher.fetch.                          *)
(***************************************************************************)
\* Invocations of fetch the call has made: those that ran into something,
\* and the one that is awaiting its token exchange or its request.
Attempts ==
  Len(call.events) + (IF call.pc \in {"exchange", "request"} THEN 1 ELSE 0)

RECURSIVE Count(_, _)
Count(events, ev) ==
  IF events = <<>> THEN 0
  ELSE (IF Head(events) = ev THEN 1 ELSE 0) + Count(Tail(events), ev)

AtLeastOne(n) == IF n < 1 THEN 1 ELSE n

\* The call is over, or it has met as many outcomes as are followed here
\* and waits for the timer of a further retry.
CallSettled ==
  \/ call.pc \in {"returned", "threw"}
  \/ call.pc = "wait" /\ Len(call.events) >= MaxEvents

=============================================================================
